---- MODULE Spec2Model ----
(***************************************************************************)
(* The hierarchical state machine runtime that Generator.generate() emits  *)
(* (base classes, one class per state, the StateMachine dispatcher), run   *)
(* on three statecharts: the coffee machine and the door lock of the       *)
(* repository's examples and a three-level chart that exercises the        *)
(* emission rules the two examples do not reach.                           *)
(***************************************************************************)
EXTENDS Integers, Sequences, FiniteSets, TLC

VARIABLES
    chart,      \* the statechart the code was generated from
    script,     \* the caller: "free" (any event) or one of the repository's scripts
    pc,         \* number of script steps executed
    state,      \* StateMachine.state: the top-level active state
    sub,        \* CompositeState._state of every composite ("None" when unset)
    hist,       \* CompositeStateWithHistory._history of every composite with history
    via,        \* how each composite's _state was last assigned
    ctx,        \* the attributes of the context objects that guards read
    err,        \* the exception that ended the last call, "none" if it returned
    lastEvent,  \* the event of the last dispatch ("" before the first)
    ret,        \* what the last StateMachine.dispatch call returned
    log,        \* the calls, pointer writes and actions of the last dispatch
    file,       \* the path of the input file given to the Parser
    input,      \* the lines written to the input file
    runs,       \* the outcome of every Parser run over the input file so far
    step,       \* the statement the driver script is at
    gen,        \* the Generator of the driver's current run
    out,        \* the text of the output file, NoFile while there is none
    coffee,     \* the CoffeeStateMachine object of the fork example
    calls       \* what each thread that runs on that object is executing

\* the variables of the generated machine and those of the tool that builds it
machineVars == <<chart, script, pc, state, sub, hist, via, ctx, err, lastEvent, ret, log>>
toolVars == <<file, input, runs, step, gen, out>>
forkVars == <<coffee, calls>>
vars == <<machineVars, toolVars, forkVars>>

Root == "sm"
NoState == "None"
NoErr == "none"
InitialPseudo == "[*]"
NoEventLabel == "+"
NoFile == "<no file>"

\* Generator.__init__: self.lines and self.actions, with the exception that
\* ended generate() ("none" while none did)
NewGenerator == [lines |-> << >>, actions |-> << >>, err |-> NoErr, msg |-> ""]

\* One transition node of the tree: the scope whose transitions_in_ list holds
\* it, source, target, event label, guard text ("" when absent), history flag.
T(scope, source, target, event, guard, h) ==
    [scope |-> scope, source |-> source, target |-> target,
     event |-> event, guard |-> guard, hist |-> h]

\* examples/outputs/own/coffeemachine.py
CoffeeChart ==
    [ states |-> {"aus", "an", "pause", "leerlauf", "zubereitung", "ausgabe"},
      parent |-> [s \in {"aus", "an", "pause", "leerlauf", "zubereitung", "ausgabe"} |->
                    IF s \in {"leerlauf", "zubereitung", "ausgabe"} THEN "an" ELSE Root],
      entry  |-> [s \in {"aus", "an", "pause", "leerlauf", "zubereitung", "ausgabe"} |->
                    IF s = "an" THEN "wasserReinigen" ELSE ""],
      exit   |-> [s \in {"aus", "an", "pause", "leerlauf", "zubereitung", "ausgabe"} |->
                    IF s \in {"aus", "an"} THEN "piepen" ELSE ""],
      trans  |-> << T(Root, InitialPseudo, "aus", NoEventLabel, "", FALSE),
                    T(Root, "aus", "an", "anschalten", "", FALSE),
                    T(Root, "an", "pause", "stop", "", FALSE),
                    T(Root, "pause", "an", "fortfahren", "", TRUE),
                    T("an", InitialPseudo, "leerlauf", NoEventLabel, "", FALSE),
                    T("an", "leerlauf", "leerlauf", "wasserAuffuellen", "", FALSE),
                    T("an", "leerlauf", "zubereitung", "kaffeeMachen", "wasser>20", FALSE),
                    T("an", "zubereitung", "ausgabe", "zubereitungAbschliessen", "", FALSE),
                    T("an", "ausgabe", "leerlauf", "kaffeeEntnehmen", "", FALSE) >>,
      attrs  |-> {"wasser"},
      events |-> {"anschalten", "stop", "fortfahren", "wasserAuffuellen", "kaffeeMachen",
                  "zubereitungAbschliessen", "kaffeeEntnehmen", "unbekannt"} ]

\* examples/outputs/drawer.py
DrawerChart ==
    [ states |-> {"auf", "zu", "verriegelt"},
      parent |-> [s \in {"auf", "zu", "verriegelt"} |-> Root],
      entry  |-> [s \in {"auf", "zu", "verriegelt"} |-> ""],
      exit   |-> [s \in {"auf", "zu", "verriegelt"} |-> ""],
      trans  |-> << T(Root, InitialPseudo, "auf", NoEventLabel, "", FALSE),
                    T(Root, "auf", "zu", "schliessen", "", FALSE),
                    T(Root, "zu", "verriegelt", "verriegeln", "", FALSE),
                    T(Root, "verriegelt", "zu", "entriegeln", "", FALSE),
                    T(Root, "zu", "auf", "oeffnen", "", FALSE) >>,
      attrs  |-> {},
      events |-> {"schliessen", "verriegeln", "entriegeln", "oeffnen", "unbekannt"} ]

\* A tree with three nesting levels given to the generator: a composite with
\* history and two own transitions (work), a composite without history nested
\* in it (run), a simple state with a bound entry action (idle), two
\* transitions of one source with the same event (plan), and a re-entry of
\* the composite with and without history (resume, restart).
DeepStates == {"idle", "work", "rest", "plan", "run", "done", "fast", "slow"}

DeepChart ==
    [ states |-> DeepStates,
      parent |-> [s \in DeepStates |->
                    IF s \in {"plan", "run", "done"} THEN "work"
                    ELSE IF s \in {"fast", "slow"} THEN "run" ELSE Root],
      entry  |-> [s \in DeepStates |->
                    IF s = "idle" THEN "boot"
                    ELSE IF s = "work" THEN "hello"
                    ELSE IF s = "run" THEN "spinUp" ELSE ""],
      exit   |-> [s \in DeepStates |->
                    IF s = "idle" THEN "bye"
                    ELSE IF s = "run" THEN "spinDown"
                    ELSE IF s = "slow" THEN "release" ELSE ""],
      trans  |-> << T(Root, InitialPseudo, "idle", NoEventLabel, "", FALSE),
                    T(Root, "idle", "work", "go", "", FALSE),
                    T(Root, "work", "rest", "halt", "", FALSE),
                    T(Root, "work", "idle", "off", "", FALSE),
                    T(Root, "rest", "work", "resume", "", TRUE),
                    T(Root, "rest", "work", "restart", "", FALSE),
                    T("work", InitialPseudo, "plan", NoEventLabel, "", FALSE),
                    T("work", "plan", "run", "next", "", FALSE),
                    T("work", "plan", "done", "next", "ready", FALSE),
                    T("work", "run", "done", "finish", "", FALSE),
                    T("work", "done", "plan", "again", "", FALSE),
                    T("run", InitialPseudo, "fast", NoEventLabel, "", FALSE),
                    T("run", "fast", "slow", "brake", "hot", FALSE),
                    T("run", "slow", "fast", "gas", "", FALSE) >>,
      attrs  |-> {"ready", "hot"},
      events |-> {"go", "halt", "off", "resume", "restart", "next", "finish",
                  "again", "brake", "gas", "unbekannt"} ]

ChartNames == {"coffeemachine", "drawer", "deep"}

ChartOf(c) ==
    CASE c = "coffeemachine" -> CoffeeChart
      [] c = "drawer" -> DrawerChart
      [] OTHER -> DeepChart

Ch == ChartOf(chart)

States == Ch.states
Parent(s) == Ch.parent[s]
Children(o) == {s \in States : Parent(s) = o}

\* emit_state: is_composite = the state's states_in_ node has children
IsComposite(s) == Children(s) # {}
Composites == {s \in States : IsComposite(s)}

\* uses_history: the state node has a "history" child, which the parser adds
\* for a transition whose target carries the history marker
UsesHistory(s) ==
    \E i \in 1..Len(Ch.trans) : Ch.trans[i].hist /\ Ch.trans[i].target = s

HistComposites == {s \in Composites : UsesHistory(s)}

\* the transitions of one scope, in declaration order
RECURSIVE SelectSeq2(_, _, _)
SelectSeq2(seq, scope, i) ==
    IF i > Len(seq) THEN << >>
    ELSE IF seq[i].scope = scope THEN <<seq[i]>> \o SelectSeq2(seq, scope, i + 1)
    ELSE SelectSeq2(seq, scope, i + 1)

TransitionsIn(scope) == SelectSeq2(Ch.trans, scope, 1)

\* emit_entry_exit / emit_state_machine: the target of the first transition of
\* the scope whose source is [*] (the loop breaks at the first one)
RECURSIVE FirstInitial(_, _)
FirstInitial(seq, i) ==
    IF i > Len(seq) THEN NoState
    ELSE IF seq[i].source = InitialPseudo THEN seq[i].target
    ELSE FirstInitial(seq, i + 1)

InitialOf(scope) == FirstInitial(TransitionsIn(scope), 1)

\* emit_dispatch: the transitions of the grandparent's list whose source is
\* this state, in declaration order
RECURSIVE OwnFrom(_, _, _)
OwnFrom(seq, s, i) ==
    IF i > Len(seq) THEN << >>
    ELSE IF seq[i].source = s THEN <<seq[i]>> \o OwnFrom(seq, s, i + 1)
    ELSE OwnFrom(seq, s, i + 1)

\* the branches of a state without the source filter
OwnAnySource(s) == TransitionsIn(Parent(s))

Own(s) == OwnFrom(TransitionsIn(Parent(s)), s, 1)

\* the guard text evaluated as self.context.<guard>
GuardHolds(g, c) ==
    CASE g = "" -> TRUE
      [] g = "wasser>20" -> c["wasser"] > 20
      [] OTHER -> c[g] # 0


(***************************************************************************)
(* The emitted runtime.  A machine value m packs the objects' fields; every *)
(* method is an operator from machine value to machine value.  A raised     *)
(* exception is recorded in m.err and every later statement is skipped: the *)
(* exception propagates to the caller of dispatch.                          *)
(***************************************************************************)
Machine ==
    [state |-> state, sub |-> sub, hist |-> hist, via |-> via,
     ctx |-> ctx, err |-> err, log |-> log]

\* statement sequencing: the machine value m, then the statements F
AndThen(m, F(_)) == CHOOSE r \in {F(x) : x \in {m}} : TRUE

\* the active-state pointer of a context object: StateMachine.state or
\* CompositeState._state
Ptr(m, o) == IF o = Root THEN m.state ELSE m.sub[o]

\* the current substate of a composite, "" for a simple state
Cur(m, s) == IF IsComposite(s) THEN m.sub[s] ELSE ""

\* one record of the log: a call (dispatch, transition, exit, entry) with the
\* callee st, a return (exit_ret, entry_ret, transition_ret), a pointer write
\* (set, sethist), a bound action that ran (entry_action, exit_action) or a
\* raised exception; ptr is the owner's active-state pointer at that moment
L(op, st, arg, ptr, uh) == [op |-> op, st |-> st, arg |-> arg, ptr |-> ptr, uh |-> uh]

Note(m, rec) == [m EXCEPT !.log = Append(@, rec)]

Raise(m, e) == [m EXCEPT !.log = Append(@, L("raise", "", e, "", FALSE)), !.err = e]

\* a bound action stub is called: def <action>(): pass
RunAction(m, kind, s, name) == Note(m, L(kind, s, name, Ptr(m, Parent(s)), FALSE))

SetPtr(m, o, new, how) ==
    IF o = Root
    THEN [m EXCEPT !.state = new, !.log = Append(@, L("set", o, new, how, FALSE))]
    ELSE [m EXCEPT !.sub[o] = new, !.via[o] = how,
                   !.log = Append(@, L("set", o, new, how, FALSE))]

SetHistory(m, o, new) ==
    [m EXCEPT !.hist[o] = new, !.log = Append(@, L("sethist", o, new, "", FALSE))]

\* exit() of state s: State.exit (pass), the emitted simple exit (the bound
\* action), CompositeState.exit (self.state.exit()) or the emitted composite
\* exit (self.state.exit(), then the bound action)
RECURSIVE Exit(_, _)
\* Exit with the composite's bound action run before the substate's exit
ExitOwnActionFirst(m, s) ==
    IF m.err # NoErr THEN m
    ELSE IF s = NoState THEN Raise(m, "AttributeError")
    ELSE
      AndThen(Note(m, L("exit", s, Cur(m, s), Ptr(m, Parent(s)), FALSE)), LAMBDA m0 :
      AndThen(IF Ch.exit[s] # "" THEN RunAction(m0, "exit_action", s, Ch.exit[s]) ELSE m0,
              LAMBDA m1 :
      AndThen(IF IsComposite(s) THEN Exit(m1, m1.sub[s]) ELSE m1, LAMBDA m2 :
        IF m2.err # NoErr THEN m2
        ELSE Note(m2, L("exit_ret", s, "", "", FALSE)))))

Exit(m, s) ==
    IF m.err # NoErr THEN m
    ELSE IF s = NoState THEN Raise(m, "AttributeError")
    ELSE
      AndThen(Note(m, L("exit", s, Cur(m, s), Ptr(m, Parent(s)), FALSE)), LAMBDA m0 :
      AndThen(IF IsComposite(s) THEN Exit(m0, m0.sub[s]) ELSE m0, LAMBDA m1 :
        IF m1.err # NoErr THEN m1
        ELSE IF Ch.exit[s] # ""
        THEN Note(RunAction(m1, "exit_action", s, Ch.exit[s]), L("exit_ret", s, "", "", FALSE))
        ELSE Note(m1, L("exit_ret", s, "", "", FALSE))))

\* SelectSubstate without the history branch: the initial substate always
SelectSubstateInitialOnly(m, s, uh) ==
    IF InitialOf(s) # NoState THEN SetPtr(m, s, InitialOf(s), "initial") ELSE m

\* SelectSubstate that takes the initial target of the enclosing scope
SelectSubstateOuterInitial(m, s, uh) == SetPtr(m, s, InitialOf(Parent(s)), "initial")

\* the substate selection of an emitted composite entry: the history slot when
\* the class has history and use_hist is true, else the scope's initial target
SelectSubstate(m, s, uh) ==
    IF UsesHistory(s) /\ uh THEN SetPtr(m, s, m.hist[s], "history")
    ELSE IF InitialOf(s) # NoState THEN SetPtr(m, s, InitialOf(s), "initial")
    ELSE m

\* entry of state s.  withArg: the caller passes use_hist positionally
\* (transition does, a composite's entry and the constructor do not); the
\* emitted entry of a simple state with a bound action takes no parameter.
RECURSIVE Entry(_, _, _, _)
\* Entry whose history branch restores the substate without running the
\* composite's bound entry action
EntryRestoreSkipsAction(m, s, withArg, uh) ==
    IF m.err # NoErr THEN m
    ELSE IF s = NoState THEN Raise(m, "AttributeError")
    ELSE
      AndThen(Note(m, L("entry", s, "", Ptr(m, Parent(s)), uh)), LAMBDA m0 :
        IF IsComposite(s)
        THEN AndThen(IF Ch.entry[s] # "" /\ ~(UsesHistory(s) /\ uh)
                     THEN RunAction(m0, "entry_action", s, Ch.entry[s]) ELSE m0, LAMBDA m1 :
             AndThen(SelectSubstate(m1, s, uh), LAMBDA m2 :
             AndThen(Entry(m2, m2.sub[s], FALSE, FALSE), LAMBDA m3 :
               IF m3.err # NoErr THEN m3
               ELSE Note(m3, L("entry_ret", s, "", "", FALSE)))))
        ELSE IF Ch.entry[s] = "" THEN Note(m0, L("entry_ret", s, "", "", FALSE))
        ELSE IF withArg THEN Raise(m0, "TypeError")
        ELSE Note(RunAction(m0, "entry_action", s, Ch.entry[s]),
                  L("entry_ret", s, "", "", FALSE)))

\* Entry whose composite passes use_hist on to the entry of its substate
EntryDeepHistory(m, s, withArg, uh) ==
    IF m.err # NoErr THEN m
    ELSE IF s = NoState THEN Raise(m, "AttributeError")
    ELSE
      AndThen(Note(m, L("entry", s, "", Ptr(m, Parent(s)), uh)), LAMBDA m0 :
        IF IsComposite(s)
        THEN AndThen(IF Ch.entry[s] # ""
                     THEN RunAction(m0, "entry_action", s, Ch.entry[s]) ELSE m0, LAMBDA m1 :
             AndThen(SelectSubstate(m1, s, uh), LAMBDA m2 :
             AndThen(Entry(m2, m2.sub[s], FALSE, uh), LAMBDA m3 :
               IF m3.err # NoErr THEN m3
               ELSE Note(m3, L("entry_ret", s, "", "", FALSE)))))
        ELSE IF Ch.entry[s] = "" THEN Note(m0, L("entry_ret", s, "", "", FALSE))
        ELSE IF withArg THEN Raise(m0, "TypeError")
        ELSE Note(RunAction(m0, "entry_action", s, Ch.entry[s]),
                  L("entry_ret", s, "", "", FALSE)))

Entry(m, s, withArg, uh) ==
    IF m.err # NoErr THEN m
    ELSE IF s = NoState THEN Raise(m, "AttributeError")
    ELSE
      AndThen(Note(m, L("entry", s, "", Ptr(m, Parent(s)), uh)), LAMBDA m0 :
        IF IsComposite(s)
        THEN AndThen(IF Ch.entry[s] # ""
                     THEN RunAction(m0, "entry_action", s, Ch.entry[s]) ELSE m0, LAMBDA m1 :
             AndThen(SelectSubstate(m1, s, uh), LAMBDA m2 :
             AndThen(Entry(m2, m2.sub[s], FALSE, FALSE), LAMBDA m3 :
               IF m3.err # NoErr THEN m3
               ELSE Note(m3, L("entry_ret", s, "", "", FALSE)))))
        ELSE IF Ch.entry[s] = "" THEN Note(m0, L("entry_ret", s, "", "", FALSE))
        ELSE IF withArg THEN Raise(m0, "TypeError")
        ELSE Note(RunAction(m0, "entry_action", s, Ch.entry[s]),
                  L("entry_ret", s, "", "", FALSE)))

\* Transition with the pointer reassigned before the old state's exit
TransitionSetFirst(m, o, new, uh) ==
    IF m.err # NoErr THEN m
    ELSE
      AndThen(Note(m, L("transition", o, new, Ptr(m, o), uh)), LAMBDA m0 :
      AndThen(SetPtr(m0, o, new, "transition"), LAMBDA m1 :
      AndThen(IF o # Root /\ UsesHistory(o) THEN SetHistory(m1, o, new) ELSE m1, LAMBDA m2 :
      AndThen(Exit(m2, Ptr(m0, o)), LAMBDA m3 :
      AndThen(Entry(m3, new, TRUE, uh), LAMBDA m4 :
        IF m4.err # NoErr THEN m4
        ELSE Note(m4, L("transition_ret", o, new, "", uh)))))))

\* Transition of a composite that runs its own bound exit and entry action
\* around the change of substate
TransitionReentersOwner(m, o, new, uh) ==
    IF m.err # NoErr THEN m
    ELSE
      AndThen(Note(m, L("transition", o, new, Ptr(m, o), uh)), LAMBDA m0 :
      AndThen(Exit(m0, Ptr(m0, o)), LAMBDA m1 :
        IF m1.err # NoErr THEN m1
        ELSE
      AndThen(IF o # Root /\ Ch.exit[o] # ""
              THEN RunAction(m1, "exit_action", o, Ch.exit[o]) ELSE m1, LAMBDA m1a :
      AndThen(SetPtr(m1a, o, new, "transition"), LAMBDA m2 :
      AndThen(IF o # Root /\ UsesHistory(o) THEN SetHistory(m2, o, new) ELSE m2, LAMBDA m3 :
      AndThen(IF o # Root /\ Ch.entry[o] # ""
              THEN RunAction(m3, "entry_action", o, Ch.entry[o]) ELSE m3, LAMBDA m3a :
      AndThen(Entry(m3a, new, TRUE, uh), LAMBDA m4 :
        IF m4.err # NoErr THEN m4
        ELSE Note(m4, L("transition_ret", o, new, "", uh)))))))))

\* transition(new_state, use_hist) of the context object o: StateMachine,
\* CompositeState or CompositeStateWithHistory
Transition(m, o, new, uh) ==
    IF m.err # NoErr THEN m
    ELSE
      AndThen(Note(m, L("transition", o, new, Ptr(m, o), uh)), LAMBDA m0 :
      AndThen(Exit(m0, Ptr(m0, o)), LAMBDA m1 :
        IF m1.err # NoErr THEN m1
        ELSE
      AndThen(SetPtr(m1, o, new, "transition"), LAMBDA m2 :
      AndThen(IF o # Root /\ UsesHistory(o) THEN SetHistory(m2, o, new) ELSE m2, LAMBDA m3 :
      AndThen(Entry(m3, new, TRUE, uh), LAMBDA m4 :
        IF m4.err # NoErr THEN m4
        ELSE Note(m4, L("transition_ret", o, new, "", uh)))))))

\* a branch condition without the guard
BranchHoldsIgnoringGuard(m, t, e) == e = t.event

\* a branch condition in which an attached guard replaces the event test
BranchHoldsGuardReplacesLabel(m, t, e) ==
    IF t.guard # "" THEN GuardHolds(t.guard, m.ctx) ELSE e = t.event

\* one emitted branch:  if event == "<label>" [and (self.context.<guard>)]:
BranchHolds(m, t, e) == e = t.event /\ GuardHolds(t.guard, m.ctx)

\* Fire that does nothing when the target is the state the context is in
FireSkipsSelf(m, o, t) ==
    IF t.target \notin Children(o) THEN Raise(m, "AttributeError")
    ELSE IF Ptr(m, o) = t.target THEN m
    ELSE Transition(m, o, t.target, t.hist)

\* the body of a branch: self.context.transition(self.context.<target>[, use_hist=True])
Fire(m, o, t) ==
    IF t.target \notin Children(o) THEN Raise(m, "AttributeError")
    ELSE Transition(m, o, t.target, t.hist)

\* dispatch(event) of state s: the emitted branches, one "if" per transition of
\* the state in declaration order, with the composite's "else" on the last
\* one; without a branch the inherited State.dispatch or CompositeState.dispatch
RECURSIVE Dispatch(_, _, _)
RECURSIVE Branches(_, _, _, _, _)
Branches(m, s, e, own, i) ==
    IF m.err # NoErr \/ i > Len(own) THEN m
    ELSE
      AndThen(IF BranchHolds(m, own[i], e) THEN Fire(m, Parent(s), own[i])
              ELSE IF i = Len(own) /\ IsComposite(s) THEN Dispatch(m, m.sub[s], e)
              ELSE m, LAMBDA m1 :
        Branches(m1, s, e, own, i + 1))

Dispatch(m, s, e) ==
    IF m.err # NoErr THEN m
    ELSE IF s = NoState THEN Raise(m, "AttributeError")
    ELSE
      AndThen(Note(m, L("dispatch", s, e, "", FALSE)), LAMBDA m0 :
      AndThen(Own(s), LAMBDA own :
        IF own # << >> THEN Branches(m0, s, e, own, 1)
        ELSE IF IsComposite(s) THEN Dispatch(m0, m0.sub[s], e)
        ELSE m0))

\* StateMachine.dispatch
MachineDispatch(m, e) == Dispatch([m EXCEPT !.log = << >>], m.state, e)

\* what a call of an emitted dispatch evaluates to: no emitted dispatch, and no
\* dispatch of the base classes, has a return statement
DispatchReturn(m) == NoState

\* StateMachine.__init__: the fields, the initial state, self.state.entry()
Construct(c) ==
    LET comps == {s \in ChartOf(c).states : \E x \in ChartOf(c).states : ChartOf(c).parent[x] = s}
        hcs   == {s \in comps : \E i \in 1..Len(ChartOf(c).trans) :
                     ChartOf(c).trans[i].hist /\ ChartOf(c).trans[i].target = s}
    IN  [state |-> NoState,
         sub   |-> [s \in comps |-> NoState],
         hist  |-> [s \in hcs |-> NoState],
         via   |-> [s \in comps |-> "none"],
         ctx   |-> [a \in ChartOf(c).attrs |-> 0],
         err   |-> NoErr,
         log   |-> << >>]

(***************************************************************************)
(* The callers: the repository's scripts, and a caller that dispatches any  *)
(* event and sets any context attribute.                                    *)
(***************************************************************************)
D(e) == [kind |-> "dispatch", name |-> e, value |-> 0]
A(a, v) == [kind |-> "set", name |-> a, value |-> v]

\* examples/testing/own/test_drawer.py
TestDrawer == << D("schliessen"), D("verriegeln"), D("oeffnen"), D("entriegeln"), D("oeffnen") >>

\* the door-lock scenario: the calls of test_drawer up to entriegeln, and
\* entriegeln once more
DoorLockScenario ==
    << D("schliessen"), D("verriegeln"), D("oeffnen"), D("entriegeln"), D("entriegeln") >>

\* examples/outputs/own/testing/test_coffemachine.py
TestCoffeemachine ==
    << D("anschalten"), D("kaffeeMachen"), D("stop"), D("fortfahren"),
       D("zubereitungAbschliessen"), D("kaffeeEntnehmen") >>

\* the script at the end of example_coffeeMachine/coffeeMachine.py
SmokeScript ==
    << D("anschalten"), D("kaffeeMachen"), A("wasser", 50), D("kaffeeMachen"),
       D("stop"), D("fortfahren") >>

\* examples/testing/test_coffemachine.py
TestSelfTransition == << D("anschalten"), D("wasserAuffuellen"), D("kaffeeMachen") >>

StepsOf(sc) ==
    CASE sc = "test_drawer" -> TestDrawer
      [] sc = "door_lock" -> DoorLockScenario
      [] sc = "test_coffeemachine" -> TestCoffeemachine
      [] sc = "smoke" -> SmokeScript
      [] sc = "test_self_transition" -> TestSelfTransition
      [] OTHER -> << >>

ScriptsFor(c) ==
    CASE c = "coffeemachine" -> {"free", "test_coffeemachine", "smoke", "test_self_transition"}
      [] c = "drawer" -> {"free", "test_drawer", "door_lock"}
      [] OTHER -> {"free"}

\* the values a caller assigns to a context attribute (sm.an.wasser = 50)
AttrValues == {0, 50}

\* Started without the constructor's closing self.state.entry()
StartedWithoutEntry(c) == [Construct(c) EXCEPT !.state = InitialOf(Root)]

Started(c) ==
    AndThen([Construct(c) EXCEPT !.state = InitialOf(Root)], LAMBDA m0 :
      Entry(m0, m0.state, FALSE, FALSE))

(***************************************************************************)
(* The hand-written target of the fork example,                             *)
(* example_fork_conditionState/target.py: one CoffeeStateMachine object on  *)
(* which a caller thread runs the event methods, a second thread calls      *)
(* stop(), and the preparation forks two threads and joins them.            *)
(***************************************************************************)
\* CoffeeStateMachine.__init__: _state, water, _preparation_history,
\* _stop_event (whether it is set) and _threads
CoffeeStateMachine ==
    [state |-> "READY", water |-> 0, preparation_history |-> "IDLE",
     stop_event |-> FALSE, threads |-> << >>]

\* no thread has called anything yet. pc: the statement a thread is at; n: the
\* number of calls it has begun; said: what its last call printed first;
\* phase, use_history: the locals of the preparation; during: the call of the
\* caller in which the last stop() found the preparation forked, 0 when none
NoCalls ==
    [caller |-> [pc |-> "idle", n |-> 0, said |-> "", phase |-> "IDLE", use_history |-> FALSE],
     stopper |-> [pc |-> "idle", n |-> 0, said |-> "", during |-> 0],
     brew |-> [pc |-> "unstarted"],
     froth |-> [pc |-> "unstarted"]]

\* the fork example has not been started
ForkIdle == coffee = CoffeeStateMachine /\ calls = NoCalls

Init ==
    /\ ForkIdle
    /\ chart \in ChartNames
    /\ script \in ScriptsFor(chart)
    /\ pc = 0
    /\ lastEvent = ""
    /\ ret = NoState
    /\ file = ""
    /\ input = << >>
    /\ runs = << >>
    /\ step = "parse"
    /\ gen = NewGenerator
    /\ out = NoFile
    /\ LET m == Started(chart)
       IN  /\ state = m.state
           /\ sub = m.sub
           /\ hist = m.hist
           /\ via = m.via
           /\ ctx = m.ctx
           /\ err = m.err
           /\ log = m.log

\* state_machine.dispatch(e)
DoDispatch(e) ==
    LET m == MachineDispatch(Machine, e)
    IN  /\ state' = m.state
        /\ sub' = m.sub
        /\ hist' = m.hist
        /\ via' = m.via
        /\ err' = m.err
        /\ log' = m.log
        /\ lastEvent' = e
        /\ ret' = DispatchReturn(m)
        /\ UNCHANGED <<chart, ctx>>

\* sm.an.wasser = 50
DoSet(a, v) ==
    /\ ctx' = [ctx EXCEPT ![a] = v]
    /\ UNCHANGED <<chart, state, sub, hist, via, err, log, lastEvent, ret>>

FreeDispatch ==
    /\ script = "free"
    /\ err = NoErr
    /\ \E e \in Ch.events : DoDispatch(e)
    /\ UNCHANGED <<script, pc>>
    /\ UNCHANGED toolVars
    /\ UNCHANGED forkVars

FreeSet ==
    /\ script = "free"
    /\ err = NoErr
    /\ \E a \in Ch.attrs : \E v \in AttrValues : DoSet(a, v)
    /\ UNCHANGED <<script, pc>>
    /\ UNCHANGED toolVars
    /\ UNCHANGED forkVars

\* the next statement of a script; an uncaught exception ends the script
ScriptStep ==
    /\ script # "free"
    /\ err = NoErr
    /\ pc < Len(StepsOf(script))
    /\ LET st == StepsOf(script)[pc + 1]
       IN  IF st.kind = "dispatch" THEN DoDispatch(st.name) ELSE DoSet(st.name, st.value)
    /\ pc' = pc + 1
    /\ UNCHANGED script
    /\ UNCHANGED toolVars
    /\ UNCHANGED forkVars

Next == FreeDispatch \/ FreeSet \/ ScriptStep

Spec == Init /\ [][Next]_vars

TypeOK ==
    /\ chart \in ChartNames
    /\ state \in States \cup {NoState}
    /\ err \in {NoErr, "AttributeError", "TypeError"}


(***************************************************************************)
(* Properties of the emitted runtime                                        *)
(***************************************************************************)
LogIdx == 1..Len(log)

\* the last dispatch entered composite c with use_hist = True
HistEntered(c) == \E i \in LogIdx : log[i].op = "entry" /\ log[i].st = c /\ log[i].uh

\* the pointer of c's owner names c
Active(c) == Ptr(Machine, Parent(c)) = c

\* C1: history restore.  When a composite with history c has been left while
\* its current substate S had been reached by a transition between c's
\* substates, a dispatch that enters c with history leaves c active with
\* current substate S and raises nothing.
C1_HistoryRestore ==
    [][ \A c \in HistComposites :
          (~Active(c) /\ via[c] = "transition" /\ HistEntered(c)')
          => (Active(c)' /\ sub'[c] = sub[c] /\ err' = NoErr) ]_vars

\* the end of the smoke script: Leerlauf -> Zubereitung, stop, fortfahren
C1_Witness ==
    /\ script = "smoke"
    /\ pc = Len(SmokeScript)
    /\ HistEntered("an")
    /\ state = "an"
    /\ sub["an"] = "zubereitung"

\* C2: empty-history fallback.  Entering a composite with history with
\* use_hist = True while its history slot has never been written makes the
\* declared initial substate current and raises nothing.
C2_EmptyHistoryFallback ==
    \A c \in HistComposites :
        (HistEntered(c) /\ hist[c] = NoState) => (sub[c] = InitialOf(c) /\ err = NoErr)

\* the history writes of composite c logged between positions i and j
HistoryWrites(c, i, j) ==
    {k \in LogIdx : i < k /\ k < j /\ log[k].op = "sethist" /\ log[k].st = c}

\* the return that matches the exit call at position i (0 if it raised)
ExitReturn(i) ==
    LET later == {k \in LogIdx : k > i /\ log[k].op = "exit_ret" /\ log[k].st = log[i].st}
    IN  IF later = {} THEN 0 ELSE CHOOSE k \in later : \A k2 \in later : k <= k2

\* C3: history capture.  Every exit of a composite with history writes its
\* history slot exactly once, and the slot afterwards names the substate that
\* was current at that exit.
C3_HistoryCapturedAtExit ==
    \A i \in LogIdx :
        (log[i].op = "exit" /\ log[i].st \in HistComposites /\ ExitReturn(i) # 0)
        => /\ hist[log[i].st] = log[i].arg
           /\ Cardinality(HistoryWrites(log[i].st, i, ExitReturn(i))) = 1


TransitionCalls == {i \in LogIdx : log[i].op = "transition"}

\* the pointer reassignments made by transition (not by a composite's entry)
Reassignments == {j \in LogIdx : log[j].op = "set" /\ log[j].ptr = "transition"}

\* the transition call that the reassignment at position j belongs to
CallOf(j) ==
    CHOOSE i \in TransitionCalls :
        /\ i < j
        /\ \A i2 \in TransitionCalls : i2 < j => i2 <= i

\* C4: transition runs exit() of the current state, then reassigns the
\* pointer, then runs entry(use_hist) of the new state: the exit of the old
\* state is called first and has returned right before the reassignment, the
\* entry of the new state is called right after it (after the history write
\* of a composite with history) with the transition's use_hist, and every
\* bound exit action runs while the owner's pointer names the exiting state,
\* every bound entry action while it names the entered state.
C4_ExitAssignEntry ==
    /\ \A i \in TransitionCalls :
         /\ log[i + 1].op = "exit" /\ log[i + 1].st = log[i].ptr
         /\ err = NoErr => \E j \in Reassignments : CallOf(j) = i
    /\ \A j \in Reassignments :
         LET i == CallOf(j)
             n == IF log[j + 1].op = "sethist" THEN j + 2 ELSE j + 1
         IN  /\ log[i].st = log[j].st /\ log[i].arg = log[j].arg
             /\ \A k \in (i + 1)..(j - 1) : log[k].op \in {"exit", "exit_action", "exit_ret"}
             /\ log[j - 1].op = "exit_ret" /\ log[j - 1].st = log[i].ptr
             /\ log[n].op = "entry" /\ log[n].st = log[j].arg
             /\ log[n].ptr = log[j].arg /\ log[n].uh = log[i].uh
    /\ \A k \in LogIdx :
         log[k].op \in {"exit_action", "entry_action"} => log[k].ptr = log[k].st

\* a transition of the composite work that ran the bound exit action of run
C4_Witness ==
    /\ chart = "deep"
    /\ lastEvent = "finish"
    /\ err = NoErr
    /\ \E i \in TransitionCalls : log[i].st = "work" /\ log[i].arg = "done"
    /\ \E k \in LogIdx : log[k].op = "exit_action" /\ log[k].st = "run"

\* C5: exit actions fire innermost-first.  The exit of a composite calls the
\* exit of its current substate first, and the composite's own bound exit
\* action (or, without one, its return) comes right after the return of that
\* substate's exit; this holds at every nesting level.
C5_InnermostFirst ==
    \A k \in LogIdx :
        /\ (log[k].op = "exit" /\ IsComposite(log[k].st))
           => (log[k + 1].op = "exit" /\ log[k + 1].st = log[k].arg)
        /\ (log[k].op = "exit_action" /\ IsComposite(log[k].st))
           => (log[k - 1].op = "exit_ret" /\ Parent(log[k - 1].st) = log[k].st)
        /\ (log[k].op = "exit_ret" /\ IsComposite(log[k].st))
           => IF Ch.exit[log[k].st] # ""
              THEN log[k - 1].op = "exit_action" /\ log[k - 1].st = log[k].st
              ELSE log[k - 1].op = "exit_ret" /\ Parent(log[k - 1].st) = log[k].st

\* work (no bound exit action) left while run/slow was current: release of
\* slow, then spinDown of run, then the return of work's exit
C5_Witness ==
    /\ chart = "deep"
    /\ \E i, j, k \in LogIdx :
         /\ i < j /\ j < k
         /\ log[i].op = "exit_action" /\ log[i].st = "slow"
         /\ log[j].op = "exit_action" /\ log[j].st = "run"
         /\ log[k].op = "exit_ret" /\ log[k].st = "work"

\* the log positions of the transition called at position i: up to the next
\* transition call
Segment(i) == {k \in LogIdx : k > i /\ \A i2 \in TransitionCalls : i2 > i => k < i2}

ActionRuns(i, kind, s) ==
    Cardinality({k \in Segment(i) : log[k].op = kind /\ log[k].st = s})

\* C6: a transition that leaves a composite runs the composite's bound exit
\* action at most once, and a transition that enters a composite runs the
\* composite's bound entry action exactly once.
C6_OncePerCrossing ==
    \A i \in TransitionCalls :
        /\ IsComposite(log[i].ptr) => ActionRuns(i, "exit_action", log[i].ptr) <= 1
        /\ (IsComposite(log[i].arg) /\ Ch.entry[log[i].arg] # "")
           => ActionRuns(i, "entry_action", log[i].arg) = 1

\* work re-entered with history from rest, which is only reached from work
C6_Witness ==
    /\ chart = "deep"
    /\ lastEvent = "resume"
    /\ state = "work"
    /\ err = NoErr
    /\ \E i \in TransitionCalls :
         log[i].st = Root /\ log[i].arg = "work" /\ ActionRuns(i, "entry_action", "work") = 1


\* the active state chain: the top-level active state and, below a composite,
\* its current substate
RECURSIVE ChainFrom(_)
ChainFrom(s) ==
    IF s = NoState THEN {}
    ELSE IF IsComposite(s) THEN {s} \cup ChainFrom(sub[s])
    ELSE {s}

Chain == ChainFrom(state)

\* the emitted branches of the states of the active chain
ChainBranches ==
    {i \in 1..Len(Ch.trans) :
        Ch.trans[i].source \in Chain /\ Ch.trans[i].scope = Parent(Ch.trans[i].source)}

LabelMatches(e) == {i \in ChainBranches : Ch.trans[i].event = e}

\* transition t is labelled with event e and its guard, if any, is true
Enabled(t, e) == t.event = e /\ (t.guard = "" \/ GuardHolds(t.guard, ctx))

\* the last dispatch called no exit, no entry and no transition, ran no bound
\* action and raised nothing
NothingRan ==
    /\ err = NoErr
    /\ \A k \in LogIdx : log[k].op = "dispatch"

\* C7: guard gating.  A dispatch of an event whose matching transitions in
\* the active chain all carry a guard that is false changes neither the
\* active state nor a substate or history pointer and runs no exit, no entry
\* and no bound action.
C7_GuardGating ==
    [][ ( /\ ctx' = ctx
          /\ LabelMatches(lastEvent') # {}
          /\ \A i \in LabelMatches(lastEvent') :
                Ch.trans[i].guard # "" /\ ~GuardHolds(Ch.trans[i].guard, ctx) )
        => (state' = state /\ sub' = sub /\ hist' = hist /\ NothingRan') ]_vars

\* the smoke script after its first kaffeeMachen, dispatched with wasser = 0
C7_Witness ==
    /\ script = "smoke"
    /\ pc = 2
    /\ lastEvent = "kaffeeMachen"
    /\ ctx["wasser"] = 0
    /\ sub["an"] = "leerlauf"
    /\ \E k \in LogIdx : log[k].op = "dispatch" /\ log[k].st = "leerlauf"

DispatchCalls == {d \in LogIdx : log[d].op = "dispatch"}

\* the transitions called by the branches of the dispatch call at position d
FiredBy(d) ==
    {i \in TransitionCalls : i > d /\ \A d2 \in DispatchCalls : d2 > d => i < d2}

\* the own branches of state s that hold for event e, by position in Own(s)
Holding(s, e) == {n \in 1..Len(Own(s)) : Enabled(Own(s)[n], e)}

\* C8: first match wins.  One dispatch call fires at most one transition of
\* the receiving state: the first branch in declaration order that holds.
C8_FirstMatchWins ==
    \A d \in DispatchCalls :
        /\ Cardinality(FiredBy(d)) <= 1
        /\ \A i \in FiredBy(d) :
             \E n \in Holding(log[d].st, log[d].arg) :
                /\ \A n2 \in Holding(log[d].st, log[d].arg) : n <= n2
                /\ log[i].arg = Own(log[d].st)[n].target

\* the dispatch of a substate of s was called
Delegated(s) == \E d \in DispatchCalls : Parent(log[d].st) = s

\* C9: a composite delegates the event to its current substate if and only
\* if none of its own branches holds.
C9_DelegateIffNoOwnMatch ==
    \A d \in DispatchCalls :
        IsComposite(log[d].st)
        => (Delegated(log[d].st) <=> Holding(log[d].st, log[d].arg) = {})

\* C10: an event for which no branch of the active chain holds is rejected:
\* the active state, every substate pointer and every history slot are
\* unchanged and no exit, entry or bound action runs.
C10_RejectedEvent ==
    [][ ( /\ ctx' = ctx
          /\ \A i \in ChainBranches : ~Enabled(Ch.trans[i], lastEvent') )
        => (state' = state /\ sub' = sub /\ hist' = hist /\ NothingRan') ]_vars

\* test_drawer after its third dispatch: oeffnen in Verriegelt
C10_Witness ==
    /\ script = "test_drawer"
    /\ pc = 3
    /\ lastEvent = "oeffnen"
    /\ state = "verriegelt"
    /\ log = << L("dispatch", "verriegelt", "oeffnen", "", FALSE) >>



\* C11 (as stated): in the door-lock chart the events schliessen, verriegeln,
\* oeffnen, entriegeln from the initial state end in Verriegelt, and one more
\* entriegeln ends in Zu.
C11_DoorLockAsStated ==
    (chart = "drawer" /\ script = "door_lock")
    => /\ pc = 4 => state = "verriegelt"
       /\ pc = 5 => state = "zu"

\* C11 (amended): schliessen, verriegeln, oeffnen end in Verriegelt, oeffnen
\* being rejected there; the following entriegeln ends in Zu, and so does one
\* more entriegeln; no call raises.
C11_DoorLockScenario ==
    (chart = "drawer" /\ script = "door_lock")
    => /\ err = NoErr
       /\ pc = 0 => state = "auf"
       /\ pc = 1 => state = "zu"
       /\ pc \in {2, 3} => state = "verriegelt"
       /\ pc \in {4, 5} => state = "zu"

C11_Witness ==
    /\ chart = "drawer" /\ script = "door_lock"
    /\ pc = 4 /\ lastEvent = "entriegeln" /\ state = "zu"



\* C12: every transition into a state with a bound entry action completes its
\* entry(use_hist) call without a TypeError, having run the action exactly once.
C12_EntryAcceptsUseHistory ==
    /\ err # "TypeError"
    /\ \A i \in TransitionCalls :
         (log[i].arg \in States /\ Ch.entry[log[i].arg] # "")
         => ActionRuns(i, "entry_action", log[i].arg) = 1

\* a value the caller's "if" takes as true
Truthy(v) == v \notin {NoState, "False"}

\* C13: the value StateMachine.dispatch returns is true exactly when a
\* transition was called for the event somewhere in the active chain.
C13_DispatchReportsHandled ==
    lastEvent # "" => (Truthy(ret) <=> TransitionCalls # {})


(***************************************************************************)
(* The parser of parser/puml_to_ast.py.  A text is a string; the file is a  *)
(* sequence of lines and data is the sequence of their tokens (each line    *)
(* split at every single blank).  The tree is treelib's: nodes with an      *)
(* identifier, a tag and a parent, the children of a node in creation       *)
(* order.  A parser value p packs the tree, the exception that ended the    *)
(* run with its message, and the number of random identifiers drawn so far. *)
(***************************************************************************)
NoParent == "<root>"

\* str.split(c): the pieces of s between the occurrences of the character c
RECURSIVE SplitFrom(_, _, _, _)
SplitFrom(s, c, k, cur) ==
    IF k > Len(s) THEN <<cur>>
    ELSE IF SubSeq(s, k, k) = c THEN <<cur>> \o SplitFrom(s, c, k + 1, "")
    ELSE SplitFrom(s, c, k + 1, cur \o SubSeq(s, k, k))

Split(s, c) == SplitFrom(s, c, 1, "")

\* sep.join(seq)
RECURSIVE Join(_, _)
Join(seq, sep) ==
    IF Len(seq) = 0 THEN ""
    ELSE IF Len(seq) = 1 THEN seq[1]
    ELSE seq[1] \o sep \o Join(Tail(seq), sep)

UpperChars == "ABCDEFGHIJKLMNOPQRSTUVWXYZ"
LowerChars == "abcdefghijklmnopqrstuvwxyz"

LowerChar(c) ==
    IF \E k \in 1..Len(UpperChars) : SubSeq(UpperChars, k, k) = c
    THEN LET k == CHOOSE k \in 1..Len(UpperChars) : SubSeq(UpperChars, k, k) = c
         IN  SubSeq(LowerChars, k, k)
    ELSE c

\* str.lower()
RECURSIVE Lower(_)
Lower(s) == IF Len(s) = 0 THEN "" ELSE LowerChar(SubSeq(s, 1, 1)) \o Lower(SubSeq(s, 2, Len(s)))

\* seq[k:] of Python, k counted from 0
From(seq, k) == SubSeq(seq, k + 1, Len(seq))

\* s[1:-1]
Strip1(s) == IF Len(s) < 2 THEN "" ELSE SubSeq(s, 2, Len(s) - 1)

\* str.startswith(prefix)
StartsWith(s, prefix) == Len(s) >= Len(prefix) /\ SubSeq(s, 1, Len(prefix)) = prefix

\* x in list
Has(toks, x) == \E k \in 1..Len(toks) : toks[k] = x

\* the tokens of every line: [x.split(" ") for x in text.split("\n")]
Data(lines) == [k \in 1..Len(lines) |-> Split(lines[k], " ")]

\* random.random(): the k-th identifier drawn in a run with the given seed;
\* the identifiers drawn in one run differ from each other and from every name
RandomIdCoarse(seed, k) == "0." \o ToString((k * seed) % 4)

RandomId(seed, k) == "0." \o ToString((k * seed) % 97)

NewParser(seed) == [tree |-> << >>, err |-> NoErr, msg |-> "", seed |-> seed, drawn |-> 0]

\* raise e(msg)
Fail(p, e, msg) == IF p.err # NoErr THEN p ELSE [p EXCEPT !.err = e, !.msg = msg]

\* a list index past the end of the list
IndexError(p) == Fail(p, "IndexError", "list index out of range")

\* Tree.get_node(nid) is not None
HasNode(tree, nid) == \E k \in 1..Len(tree) : tree[k].id = nid

\* Tree.create_node(tag, identifier, parent)
CreateNode(p, tag, nid, parent) ==
    IF p.err # NoErr THEN p
    ELSE IF HasNode(p.tree, nid)
         THEN Fail(p, "DuplicatedNodeIdError", "Can't create node with ID '" \o nid \o "'")
    ELSE IF parent = NoParent /\ Len(p.tree) > 0
         THEN Fail(p, "MultipleRootError", "A tree takes one root merely.")
    ELSE IF parent # NoParent /\ ~HasNode(p.tree, parent)
         THEN Fail(p, "NodeIDAbsentError", "Parent node '" \o parent \o "' is not in the tree")
    ELSE [p EXCEPT !.tree = Append(@, [id |-> nid, tag |-> tag, parent |-> parent])]

\* Tree.create_node(tag, random.random(), parent)
CreateRandomNode(p, tag, parent) ==
    IF p.err # NoErr THEN p
    ELSE CreateNode([p EXCEPT !.drawn = @ + 1], tag, RandomId(p.seed, p.drawn + 1), parent)

\* the identifier the last random.random() call returned
LastId(p) == RandomId(p.seed, p.drawn)

\* an argument left at its default None
Unset == "<unset>"

RECURSIVE find_state(_, _, _, _)

\* the loop of explore_inner: from line lline on, the first line at which as
\* many braces were closed as opened; 0 when data[lline] runs past the last
\* line (IndexError)
RECURSIVE MatchingClose(_, _, _, _)
MatchingClose(data, lline, opened, closed) ==
    IF opened = closed THEN lline
    ELSE IF lline + 1 > Len(data) THEN 0
    ELSE MatchingClose(data, lline + 1,
                       opened + (IF Has(data[lline + 1], "{") THEN 1 ELSE 0),
                       closed + (IF Has(data[lline + 1], "}") THEN 1 ELSE 0))

\* Parser.explore_inner(line, data, i, parent); line counts from 1 here
explore_inner(p, line, data, i, parent) ==
    IF p.err # NoErr \/ ~Has(data[line], "{") THEN p
    ELSE AndThen(MatchingClose(data, line, 1, 0), LAMBDA lline :
           IF lline = 0 THEN IndexError(p)
           ELSE find_state(p, SubSeq(data, line, lline - 1), i + 2, Lower(parent)))

\* create_state without the test that the state node is not there yet
create_state_unchecked(p, line, i, parent, braces, data, new_node) ==
    IF p.err # NoErr THEN p
    ELSE
      AndThen(Split(parent, "_")[1], LAMBDA scope :
      AndThen(IF new_node = Unset THEN Lower(data[line][i + 2]) ELSE new_node, LAMBDA name :
      AndThen(name \o "_in_" \o scope, LAMBDA new_node_id :
      AndThen(IF name # InitialPseudo
              THEN CreateNode(
                     CreateNode(
                       CreateNode(p, new_node_id, new_node_id, "states_in_" \o scope),
                       "transitions_in_" \o name, "transitions_in_" \o name, new_node_id),
                     "states_in_" \o name, "states_in_" \o name, new_node_id)
              ELSE p, LAMBDA p1 :
      AndThen(IF Len(Split(name, "[")) = 2
              THEN CreateNode(p1, "history_state_" \o name, "h_" \o name, "states_in_" \o name)
              ELSE p1, LAMBDA p2 :
        IF braces THEN explore_inner(p2, line, data, i, new_node_id) ELSE p2)))))

\* Parser.create_state(line, i, parent, braces, data, new_node)
create_state(p, line, i, parent, braces, data, new_node) ==
    IF p.err # NoErr THEN p
    ELSE
      AndThen(Split(parent, "_")[1], LAMBDA scope :
      AndThen(IF new_node = Unset THEN Lower(data[line][i + 2]) ELSE new_node, LAMBDA name :
      AndThen(name \o "_in_" \o scope, LAMBDA new_node_id :
      AndThen(IF ~HasNode(p.tree, new_node_id) /\ name # InitialPseudo
              THEN CreateNode(
                     CreateNode(
                       CreateNode(p, new_node_id, new_node_id, "states_in_" \o scope),
                       "transitions_in_" \o name, "transitions_in_" \o name, new_node_id),
                     "states_in_" \o name, "states_in_" \o name, new_node_id)
              ELSE p, LAMBDA p1 :
      AndThen(IF Len(Split(name, "[")) = 2
              THEN CreateNode(p1, "history_state_" \o name, "h_" \o name, "states_in_" \o name)
              ELSE p1, LAMBDA p2 :
        IF braces THEN explore_inner(p2, line, data, i, new_node_id) ELSE p2)))))

\* the goal of a transition line, history-directed or not (lines 78-95)
SetDestination(p, line, i, parent, t_id, source_state, goal_state) ==
    AndThen(Split(goal_state, "["), LAMBDA history_check :
      IF Len(history_check) = 2
      THEN AndThen(CreateRandomNode(p, "goal_state", t_id), LAMBDA p1 :
           AndThen(CreateRandomNode(p1, "history_state_" \o history_check[1], LastId(p1)),
                   LAMBDA p2 :
             IF p2.err = NoErr /\ ~HasNode(p2.tree, "h_" \o history_check[1])
             THEN CreateNode(p2, "history", "h_" \o history_check[1],
                             history_check[1] \o "_in_" \o parent)
             ELSE p2))
      ELSE AndThen(CreateRandomNode(p, "goal_state", t_id), LAMBDA p1 :
           AndThen(CreateRandomNode(p1, goal_state, LastId(p1)), LAMBDA p2 :
             IF p2.err = NoErr /\ ~HasNode(p2.tree, goal_state \o "_in_" \o parent)
                /\ source_state # InitialPseudo
             THEN create_state(p2, line, i, parent, FALSE, << >>, goal_state)
             ELSE p2)))

\* the guard of a transition line (lines 97-101)
SetGuard(p, line, i, t_id) ==
    IF p.err = NoErr /\ Len(line) > i + 6
    THEN AndThen(CreateRandomNode(p, "guard", t_id), LAMBDA p1 :
           CreateRandomNode(p1, Strip1(Join(From(line, 7), "")), LastId(p1)))
    ELSE p

\* the transition node (lines 53-67): a NodeIDAbsentError of the first attempt
\* is caught and the node is created again, under "transitions" when the line
\* has no event label
TransitionRoot(p, line, i, parent) ==
    AndThen(CreateRandomNode(p, IF Len(line) >= i + 5 THEN line[i + 5] ELSE NoEventLabel,
                             "transitions_in_" \o parent), LAMBDA p1 :
      IF p1.err = "NodeIDAbsentError" /\ Len(line) < i + 5
      THEN CreateNode([p1 EXCEPT !.err = NoErr, !.msg = ""], NoEventLabel, LastId(p1),
                      "transitions")
      ELSE p1)

\* Parser.create_transition(line, i, parent); line is the token list
create_transition(p, line, i, parent) ==
    IF p.err # NoErr THEN p
    ELSE IF Len(line) < i + 3 THEN IndexError(p)
    ELSE
      AndThen(Lower(Split(line[i + 1], ":")[1]), LAMBDA source_state :
      AndThen(Lower(Split(line[i + 3], ":")[1]), LAMBDA goal_state :
      AndThen(TransitionRoot(p, line, i, parent), LAMBDA p1 :
      AndThen(LastId(p1), LAMBDA t_id :
      AndThen(CreateRandomNode(p1, "source_state", t_id), LAMBDA p2 :
      AndThen(CreateRandomNode(p2, source_state, LastId(p2)), LAMBDA p3 :
      AndThen(IF p3.err = NoErr /\ ~HasNode(p3.tree, source_state \o "_in_" \o parent)
                 /\ source_state # InitialPseudo
              THEN create_state(p3, line, i, parent, FALSE, << >>, source_state)
              ELSE p3, LAMBDA p4 :
      AndThen(SetDestination(p4, line, i, parent, t_id, source_state, goal_state),
              LAMBDA p5 :
        SetGuard(p5, line, i, t_id)))))))))

\* the body shared by create_entry and create_exit (kind is "entry" or "exit")
Binding(p, kind, line, i, parent) ==
    IF p.err # NoErr THEN p
    ELSE
      AndThen(Lower(Split(line[i + 1], ":")[1]), LAMBDA st :
      AndThen(kind \o "_" \o st, LAMBDA name :
      AndThen(CreateNode(p, kind, name, st \o "_in_" \o parent), LAMBDA p1 :
        CreateNode(p1, Join(From(line, i + 2), " "),
                   name \o "_" \o Lower(Join(From(line, i + 2), "_")), name))))

\* create_exit that hangs the exit binding below an entry binding the state
\* already has
create_exit_below_entry(p, line, i, parent) ==
    IF p.err # NoErr THEN p
    ELSE
      AndThen(Lower(Split(line[i + 1], ":")[1]), LAMBDA st :
      AndThen(CreateNode(p, "exit", "exit_" \o st,
                         IF HasNode(p.tree, "entry_" \o st) THEN "entry_" \o st
                         ELSE st \o "_in_" \o parent), LAMBDA p1 :
        CreateNode(p1, Join(From(line, i + 2), " "),
                   "exit_" \o st \o "_" \o Lower(Join(From(line, i + 2), "_")),
                   "exit_" \o st)))

\* Parser.create_entry(line, i, parent)
create_entry(p, line, i, parent) == Binding(p, "entry", line, i, parent)

\* Parser.create_exit(line, i, parent)
create_exit(p, line, i, parent) == Binding(p, "exit", line, i, parent)

\* find_state without the test of the length of the line: the tokens at i and
\* i + 1 of a shorter line are read
FindLineUnguarded(p, data, i, parent, line) ==
    IF p.err # NoErr THEN p
    ELSE IF Len(data[line]) < i + 2 THEN IndexError(p)
    ELSE
      AndThen(data[line], LAMBDA toks :
      AndThen(IF toks[i + 1] = "state"
              THEN create_state(p, line, i, parent, TRUE, data, Unset) ELSE p, LAMBDA p1 :
      AndThen(IF toks[i + 2] \in {"-->", "->"}
              THEN create_transition(p1, toks, i, Split(parent, "_")[1]) ELSE p1, LAMBDA p2 :
      AndThen(IF toks[i + 2] = "Entry:"
              THEN create_entry(p2, toks, i, Split(parent, "_")[Len(Split(parent, "_"))])
              ELSE p2, LAMBDA p3 :
        IF toks[i + 2] = "Exit:"
        THEN create_exit(p3, toks, i, Split(parent, "_")[Len(Split(parent, "_"))])
        ELSE p3))))

\* the body of the loop of find_state for one line
FindLine(p, data, i, parent, line) ==
    IF p.err # NoErr \/ Len(data[line]) < i + 2 THEN p
    ELSE
      AndThen(data[line], LAMBDA toks :
      AndThen(IF toks[i + 1] = "state"
              THEN create_state(p, line, i, parent, TRUE, data, Unset) ELSE p, LAMBDA p1 :
      AndThen(IF toks[i + 2] \in {"-->", "->"}
              THEN create_transition(p1, toks, i, Split(parent, "_")[1]) ELSE p1, LAMBDA p2 :
      AndThen(IF toks[i + 2] = "Entry:"
              THEN create_entry(p2, toks, i, Split(parent, "_")[Len(Split(parent, "_"))])
              ELSE p2, LAMBDA p3 :
        IF toks[i + 2] = "Exit:"
        THEN create_exit(p3, toks, i, Split(parent, "_")[Len(Split(parent, "_"))])
        ELSE p3))))

RECURSIVE FindLines(_, _, _, _, _)
FindLines(p, data, i, parent, line) ==
    IF p.err # NoErr \/ line > Len(data) THEN p
    ELSE AndThen(FindLine(p, data, i, parent, line), LAMBDA p1 :
           FindLines(p1, data, i, parent, line + 1))

\* Parser.find_state(data, i, parent)
find_state(p, data, i, parent) == FindLines(p, data, i, parent, 1)

\* Parser.puml_to_ast() of a fresh Parser for the file with base name root
puml_to_ast(lines, root, seed) ==
    AndThen(CreateNode(NewParser(seed), root, root, NoParent), LAMBDA p0 :
    AndThen(CreateNode(p0, "transitions_in_" \o root, "transitions_in_" \o root, root),
            LAMBDA p1 :
    AndThen(CreateNode(p1, "states_in_" \o root, "states_in_" \o root, root), LAMBDA p2 :
      find_state(p2, Data(lines), 0, root))))

(***************************************************************************)
(* The generator of src/generator.py over a treelib tree.  A generator      *)
(* value g packs self.lines, self.actions (in the order the names were      *)
(* added) and the exception that ended generate().                          *)
(***************************************************************************)
\* Tree.children(nid): the nodes below nid in creation order
RECURSIVE KidsFrom(_, _, _)
KidsFrom(tree, nid, k) ==
    IF k > Len(tree) THEN << >>
    ELSE IF tree[k].parent = nid THEN <<tree[k]>> \o KidsFrom(tree, nid, k + 1)
    ELSE KidsFrom(tree, nid, k + 1)

Kids(tree, nid) == KidsFrom(tree, nid, 1)

\* Tree.get_node(nid)
NodeOf(tree, nid) == tree[CHOOSE k \in 1..Len(tree) : tree[k].id = nid]

UpperChar(c) ==
    IF \E k \in 1..Len(LowerChars) : SubSeq(LowerChars, k, k) = c
    THEN LET k == CHOOSE k \in 1..Len(LowerChars) : SubSeq(LowerChars, k, k) = c
         IN  SubSeq(UpperChars, k, k)
    ELSE c

\* str.capitalize()
Capitalize(s) ==
    IF Len(s) = 0 THEN "" ELSE UpperChar(SubSeq(s, 1, 1)) \o Lower(SubSeq(s, 2, Len(s)))

\* self.lines.append(l) / self.lines += ls
Emit(g, ls) == IF g.err # NoErr THEN g ELSE [g EXCEPT !.lines = @ \o ls]

\* self.actions as a list: an action is added once per binding
AddActionPerBinding(g, a) == IF g.err # NoErr THEN g ELSE [g EXCEPT !.actions = Append(@, a)]

\* self.actions.add(a)
AddAction(g, a) ==
    IF g.err # NoErr \/ Has(g.actions, a) THEN g ELSE [g EXCEPT !.actions = Append(@, a)]

\* self.tree.children(nid) of a node that is not in the tree
Absent(g, nid) == Fail(g, "NodeIDAbsentError", "Node '" \o nid \o "' is not in the tree")

\* self.tree.children(c.identifier)[0].tag: the name below a source_state,
\* goal_state, guard, entry or exit node
FirstTag(tree, nid) == IF Kids(tree, nid) = << >> THEN Unset ELSE Kids(tree, nid)[1].tag

\* the last child of node nid tagged kind, Unset (None) without one
RECURSIVE LastTagged(_, _, _, _)
LastTagged(tree, kids, kind, k) ==
    IF k = 0 THEN Unset
    ELSE IF kids[k].tag = kind THEN kids[k].id
    ELSE LastTagged(tree, kids, kind, k - 1)

\* the loop over the children of a transition node: the names of its source,
\* goal and guard (lines 162-168, 208-216, 259-265)
Part(tree, t, kind) ==
    AndThen(LastTagged(tree, Kids(tree, t.id), kind, Len(Kids(tree, t.id))), LAMBDA c :
      IF c = Unset THEN Unset ELSE FirstTag(tree, c))

\* a transition node has a child of one of the kinds without a child of its
\* own: children(c.identifier)[0] raises IndexError
Childless(tree, t, kinds) ==
    \E k \in 1..Len(Kids(tree, t.id)) :
        /\ Kids(tree, t.id)[k].tag \in kinds
        /\ Kids(tree, Kids(tree, t.id)[k].id) = << >>

\* Generator.emit_base_classes
emit_base_classes(g) ==
    Emit(g, <<
        "from abc import ABC, abstractmethod",
        "",
        "",
        "class State(ABC):",
        "    @abstractmethod",
        "    def __init__(self, context):",
        "        pass",
        "",
        "    def entry(self, use_hist: bool = False):",
        "        pass",
        "",
        "    def exit(self):",
        "        pass",
        "",
        "    def dispatch(self, event: str):",
        "        pass",
        "",
        "",
        "class SimpleState(State):",
        "    def __init__(self, context):",
        "        self.context = context",
        "",
        "",
        "class CompositeState(State):",
        "    @property",
        "    def state(self) -> State:",
        "        return self._state",
        "",
        "    @abstractmethod",
        "    def entry(self, use_hist: bool = False):",
        "        pass",
        "",
        "    def exit(self):",
        "        self.state.exit()",
        "",
        "    def dispatch(self, event: str):",
        "        self.state.dispatch(event)",
        "",
        "    def transition(self, new_state: State, use_hist: bool = False):",
        "        self.state.exit()",
        "        self._state = new_state",
        "        self.state.entry(use_hist)",
        "",
        "",
        "class CompositeStateWithHistory(CompositeState):",
        "    @property",
        "    def history(self) -> State:",
        "        return self._history",
        "",
        "    def transition(self, new_state: State, use_hist: bool = False):",
        "        self.state.exit()",
        "        self._state = new_state",
        "        self._history = self._state",
        "        self.state.entry(use_hist)",
        "",
        "" >>)

\* Generator.uses_history(state_node)
uses_history(tree, state_node) ==
    \E k \in 1..Len(Kids(tree, state_node.id)) : Kids(tree, state_node.id)[k].tag = "history"

\* Generator.emit_init(state_node, composite, has_hist)
RECURSIVE FieldLines(_, _, _)
FieldLines(subs, k, indent) ==
    IF k > Len(subs) THEN << >>
    ELSE IF subs[k].tag = InitialPseudo THEN FieldLines(subs, k + 1, indent)
    ELSE <<indent \o "self." \o subs[k].tag \o " = " \o Capitalize(subs[k].tag) \o "(self)">>
         \o FieldLines(subs, k + 1, indent)

emit_init(g, tree, state_node, composite, has_hist) ==
    IF g.err # NoErr \/ ~composite THEN g
    ELSE Emit(g, <<"    def __init__(self, context):", "        self.context = context">>
                 \o FieldLines(Kids(tree, "states_in_" \o state_node.tag), 1, "        ")
                 \o <<"        self._state = None">>
                 \o (IF has_hist THEN <<"        self._history = None">> ELSE << >>)
                 \o <<"">>)


\* the loop of lines 142-148: the action bound by the last child tagged kind
\* ("entry" or "exit"), Unset (None) without one
BoundAction(tree, state_node, kind) ==
    AndThen(LastTagged(tree, Kids(tree, state_node.id), kind, Len(Kids(tree, state_node.id))),
            LAMBDA c : IF c = Unset THEN Unset ELSE FirstTag(tree, c))

\* self.actions after the loop of lines 142-148
RECURSIVE AddActions(_, _, _, _)
AddActions(g, tree, kids, k) ==
    IF g.err # NoErr \/ k > Len(kids) THEN g
    ELSE IF kids[k].tag \in {"entry", "exit"}
         THEN IF Kids(tree, kids[k].id) = << >> THEN IndexError(g)
              ELSE AddActions(AddAction(g, FirstTag(tree, kids[k].id)), tree, kids, k + 1)
    ELSE AddActions(g, tree, kids, k + 1)

\* the loops of lines 161-175 and 258-269: the line that sets the initial
\* state, from the first transition of the list whose source is [*]
RECURSIVE InitialLine(_, _, _, _)
InitialLine(tree, ts, k, prefix) ==
    IF k > Len(ts) THEN << >>
    ELSE IF Part(tree, ts[k], "source_state") = InitialPseudo
         THEN <<prefix \o (IF Part(tree, ts[k], "goal_state") = Unset THEN "None"
                           ELSE Part(tree, ts[k], "goal_state"))>>
    ELSE InitialLine(tree, ts, k + 1, prefix)

\* a transition before the first initial one, or that one, raises IndexError
RECURSIVE InitialLoopFails(_, _, _)
InitialLoopFails(tree, ts, k) ==
    IF k > Len(ts) THEN FALSE
    ELSE IF Childless(tree, ts[k], {"source_state", "goal_state"}) THEN TRUE
    ELSE IF Part(tree, ts[k], "source_state") = InitialPseudo THEN FALSE
    ELSE InitialLoopFails(tree, ts, k + 1)

\* Generator.emit_entry_exit(state_node, is_composite, has_hist)
emit_entry_exit(g, tree, state_node, is_composite, has_hist) ==
    IF g.err # NoErr THEN g
    ELSE
      AndThen(AddActions(g, tree, Kids(tree, state_node.id), 1), LAMBDA g1 :
      AndThen(BoundAction(tree, state_node, "entry"), LAMBDA entry :
      AndThen(BoundAction(tree, state_node, "exit"), LAMBDA exit :
        IF g1.err # NoErr THEN g1
        ELSE IF is_composite
        THEN IF ~HasNode(tree, "transitions_in_" \o state_node.tag)
             THEN Absent(Emit(g1, <<"    def entry(self, use_hist: bool = False):">>
                              \o (IF entry # Unset /\ entry # ""
                                  THEN <<"        " \o entry \o "()", "">> ELSE << >>)
                              \o (IF has_hist
                                  THEN <<"        if use_hist:",
                                         "            self._state = self._history",
                                         "        else:">> ELSE << >>)),
                         "transitions_in_" \o state_node.tag)
             ELSE IF InitialLoopFails(tree, Kids(tree, "transitions_in_" \o state_node.tag), 1)
             THEN IndexError(g1)
             ELSE Emit(g1,
                    <<"    def entry(self, use_hist: bool = False):">>
                    \o (IF entry # Unset /\ entry # ""
                        THEN <<"        " \o entry \o "()", "">> ELSE << >>)
                    \o (IF has_hist
                        THEN <<"        if use_hist:",
                               "            self._state = self._history",
                               "        else:">> ELSE << >>)
                    \o InitialLine(tree, Kids(tree, "transitions_in_" \o state_node.tag), 1,
                                   IF has_hist THEN "            self._state = self."
                                   ELSE "        self._state = self.")
                    \o <<"", "        self.state.entry()", "">>
                    \o (IF exit # Unset /\ exit # ""
                        THEN <<"    def exit(self):", "        self.state.exit()",
                               "        " \o exit \o "()", "">> ELSE << >>))
        ELSE Emit(g1,
               (IF entry # Unset /\ entry # ""
                THEN <<"    def entry(self):", "        " \o entry \o "()", "">> ELSE << >>)
               \o (IF exit # Unset /\ exit # ""
                   THEN <<"    def exit(self):", "        " \o exit \o "()", "">>
                   ELSE << >>)))))

\* the branches of lines 207-234 for the transitions ts whose source is name
RECURSIVE DispatchLines(_, _, _, _)
DispatchLines(tree, ts, k, name) ==
    IF k > Len(ts) THEN << >>
    ELSE
      AndThen(IF Part(tree, ts[k], "source_state") = Unset THEN ""
              ELSE Part(tree, ts[k], "source_state"), LAMBDA source :
      AndThen(IF Part(tree, ts[k], "goal_state") = Unset THEN ""
              ELSE Part(tree, ts[k], "goal_state"), LAMBDA target :
      AndThen(IF Part(tree, ts[k], "guard") = Unset THEN ""
              ELSE Part(tree, ts[k], "guard"), LAMBDA guard :
        IF source # name THEN DispatchLines(tree, ts, k + 1, name)
        ELSE <<"        if event == \"" \o ts[k].tag \o "\""
                 \o (IF guard # "" THEN " and (self.context." \o guard \o ")" ELSE "") \o ":",
               IF StartsWith(target, "history_state_")
               THEN "            self.context.transition(self.context."
                    \o SubSeq(target, 15, Len(target)) \o ", use_hist=True)"
               ELSE "            self.context.transition(self.context." \o target \o ")">>
             \o DispatchLines(tree, ts, k + 1, name))))

\* Generator.emit_dispatch(state_node, is_composite)
emit_dispatch(g, tree, state_node, is_composite) ==
    IF g.err # NoErr THEN g
    ELSE
      AndThen(NodeOf(tree, NodeOf(tree, state_node.parent).parent).tag, LAMBDA grandparent_name :
      AndThen("transitions_in_" \o grandparent_name, LAMBDA trans_root :
        IF ~HasNode(tree, trans_root) THEN Absent(g, trans_root)
        ELSE IF \E k \in 1..Len(Kids(tree, trans_root)) : Childless(tree, Kids(tree, trans_root)[k],
                                                           {"source_state", "goal_state", "guard"})
        THEN IndexError(g)
        ELSE AndThen(DispatchLines(tree, Kids(tree, trans_root), 1, state_node.tag),
                     LAMBDA dispatch_lines :
               IF dispatch_lines = << >> THEN g
               ELSE Emit(g, <<"    def dispatch(self, event: str):">>
                            \o dispatch_lines
                            \o (IF is_composite
                                THEN <<"        else:", "            self.state.dispatch(event)">>
                                ELSE << >>)
                            \o <<"">>))))

RECURSIVE emit_states(_, _, _)

\* is_composite of emit_state: states_in_<name> exists and has children
is_composite(tree, state_node) ==
    /\ HasNode(tree, "states_in_" \o state_node.tag)
    /\ Kids(tree, "states_in_" \o state_node.tag) # << >>

\* has_hist of emit_state
has_hist(tree, state_node) == is_composite(tree, state_node) /\ uses_history(tree, state_node)

\* the class line of emit_state
ClassLine(tree, state_node) ==
    "class " \o Capitalize(state_node.tag) \o "("
    \o (IF ~is_composite(tree, state_node) THEN "SimpleState"
        ELSE IF has_hist(tree, state_node) THEN "CompositeStateWithHistory"
        ELSE "CompositeState") \o "):"

\* Generator.emit_state(state_node)
emit_state(g, tree, state_node) ==
    IF g.err # NoErr THEN g
    ELSE
      AndThen(Emit(g, <<ClassLine(tree, state_node)>>), LAMBDA g1 :
      AndThen(emit_init(g1, tree, state_node, is_composite(tree, state_node),
                        has_hist(tree, state_node)), LAMBDA g2 :
      AndThen(emit_entry_exit(g2, tree, state_node, is_composite(tree, state_node),
                              has_hist(tree, state_node)), LAMBDA g3 :
      AndThen(emit_dispatch(g3, tree, state_node, is_composite(tree, state_node)), LAMBDA g4 :
      AndThen(Emit(g4, <<"">>), LAMBDA g5 :
        IF is_composite(tree, state_node) THEN emit_states(g5, tree, state_node.tag)
        ELSE g5)))))

RECURSIVE EmitEach(_, _, _, _)
EmitEach(g, tree, nodes, k) ==
    IF g.err # NoErr \/ k > Len(nodes) THEN g
    ELSE EmitEach(emit_state(g, tree, nodes[k]), tree, nodes, k + 1)

\* Generator.emit_states(parent)
emit_states(g, tree, parent) ==
    IF g.err # NoErr THEN g
    ELSE IF ~HasNode(tree, "states_in_" \o parent) THEN Absent(g, "states_in_" \o parent)
    ELSE EmitEach(g, tree, Kids(tree, "states_in_" \o parent), 1)

\* Generator.emit_state_machine
emit_state_machine(g, tree, root) ==
    IF g.err # NoErr THEN g
    ELSE
      AndThen(Emit(g, <<"class StateMachine:", "    def __init__(self):">>), LAMBDA g1 :
        IF ~HasNode(tree, "states_in_" \o root) THEN Absent(g1, "states_in_" \o root)
        ELSE
      AndThen(Emit(g1, FieldLines(Kids(tree, "states_in_" \o root), 1, "        ")), LAMBDA g2 :
        IF ~HasNode(tree, "transitions_in_" \o root) THEN Absent(g2, "transitions_in_" \o root)
        ELSE IF InitialLoopFails(tree, Kids(tree, "transitions_in_" \o root), 1)
        THEN IndexError(g2)
        ELSE Emit(g2,
               InitialLine(tree, Kids(tree, "transitions_in_" \o root), 1,
                           "        self.state = self.")
               \o <<"        self.state.entry()",
                    "",
                    "    def dispatch(self, event: str):",
                    "        self.state.dispatch(event)",
                    "",
                    "    def transition(self, new_state: State, use_hist: bool = False):",
                    "        self.state.exit()",
                    "        self.state = new_state",
                    "        self.state.entry(use_hist)",
                    "",
                    "">>)))

\* the order in which "for a in self.actions" visits the set: the order of the
\* hash values, which differs from one interpreter run to the next
RECURSIVE Reverse(_)
Reverse(seq) == IF seq = << >> THEN << >> ELSE Reverse(Tail(seq)) \o <<Head(seq)>>

SetOrder(actions, hashseed) == IF hashseed = 1 THEN actions ELSE Reverse(actions)

RECURSIVE StubLines(_)
StubLines(actions) ==
    IF actions = << >> THEN << >>
    ELSE <<"def " \o Head(actions) \o "():", "    pass", "", "">> \o StubLines(Tail(actions))

\* Generator.emit_actions
emit_actions(g, hashseed) == Emit(g, StubLines(SetOrder(g.actions, hashseed)))

\* Generator(tree, root).generate(): self.lines and, when no exception ended
\* it, the returned text "\n".join(self.lines)
generate(tree, root, hashseed) ==
    AndThen(emit_base_classes(NewGenerator), LAMBDA g1 :
    AndThen(emit_states(g1, tree, root), LAMBDA g2 :
    AndThen(emit_state_machine(g2, tree, root), LAMBDA g3 :
      emit_actions(g3, hashseed))))

(***************************************************************************)
(* The tool at work: an input file is written line by line and the driver   *)
(* script of src/main.py is run over it, more than once: a fresh Parser,    *)
(* a Generator over the tree it returned, then the output file.             *)
(***************************************************************************)
MaxLines == 3
MaxRuns == 2

Files == {"examples/inputs/Door.puml", "examples/inputs/my_door.puml"}

LinePool ==
    {"state A {", "}", "  B --> C : e", "[*] --> A", "A --> B : go", "state B",
     "B --> A[H] : back", "A: Entry: x"}

\* the seeds of the random identifiers of a run and of the hash order of a set
Seeds == {1, 2}

\* what the output file holds before the first run
OldFiles == {NoFile, "# generated earlier"}

\* Parser.__init__: self.parent, the lower-cased base name of the file
ParentOf(f) == Lower(Split(Split(f, "/")[Len(Split(f, "/"))], ".")[1])

\* self.f.read().split("\n") of the file holding the written lines
TextLines(written) == IF written = << >> THEN <<"">> ELSE written

\* what a run leaves behind: parser.tree, and the exception that ended
\* puml_to_ast with its message ("none" when the tree was returned)
Outcome(p) == [tree |-> p.tree, err |-> p.err, msg |-> p.msg]

\* the statement the script goes to after a call that drew the result o and
\* is followed by the statement at: an exception ends the script
ContinueAnyway(at, o) == at

Continue(at, o) == IF o.err # NoErr THEN "raised" ELSE at

\* no machine has been generated yet
MachineIdle ==
    /\ chart = "" /\ script = "" /\ pc = 0 /\ lastEvent = ""
    /\ state = NoState /\ ret = NoState /\ err = NoErr
    /\ sub = << >> /\ hist = << >> /\ via = << >> /\ ctx = << >> /\ log = << >>

ToolInit ==
    /\ MachineIdle
    /\ ForkIdle
    /\ file \in Files
    /\ input = << >>
    /\ runs = << >>
    /\ step = "parse"
    /\ gen = NewGenerator
    /\ out \in OldFiles

\* one more line is written to the input file
AddLine ==
    /\ Len(input) < MaxLines
    /\ runs = << >>
    /\ \E l \in LinePool : input' = Append(input, l)
    /\ UNCHANGED <<file, runs, step, gen, out>>
    /\ UNCHANGED machineVars
    /\ UNCHANGED forkVars

\* the script is started (again);
\* parser = Parser(file=file, warnings=False); tree = parser.puml_to_ast()
RunParser ==
    /\ Len(runs) < MaxRuns
    /\ step \in {"parse", "done", "raised"}
    /\ \E seed \in Seeds :
         \E o \in {Outcome(puml_to_ast(TextLines(input), ParentOf(file), seed))} :
           /\ runs' = Append(runs, o)
           /\ step' = Continue("generate", o)
    /\ gen' = NewGenerator
    /\ UNCHANGED <<file, input, out>>
    /\ UNCHANGED machineVars
    /\ UNCHANGED forkVars

\* gen = Generator(tree, root); code = gen.generate()
RunGenerator ==
    /\ step = "generate"
    /\ \E hashseed \in Seeds :
         \E g \in {generate(runs[Len(runs)].tree, ParentOf(file), hashseed)} :
           /\ gen' = g
           /\ step' = Continue("write", g)
    /\ UNCHANGED <<file, input, runs, out>>
    /\ UNCHANGED machineVars
    /\ UNCHANGED forkVars

\* with open(f"{output_dir}/{root}.py", "w", encoding="utf-8") as f: f.write(code)
WriteOutput ==
    /\ step = "write"
    /\ out' = Join(gen.lines, "\n")
    /\ step' = "done"
    /\ UNCHANGED <<file, input, runs, gen>>
    /\ UNCHANGED machineVars
    /\ UNCHANGED forkVars

ToolNext == AddLine \/ RunParser \/ RunGenerator \/ WriteOutput

ToolSpec == ToolInit /\ [][ToolNext]_vars


(***************************************************************************)
(* Properties of the parser                                                 *)
(***************************************************************************)
Run == 1..Len(runs)

\* a node identifier that random.random() produced
IsRandomId(nid) == StartsWith(nid, "0.")

PosOf(tree, nid) == CHOOSE k \in 1..Len(tree) : tree[k].id = nid

\* the tree without its random identifiers: every node with its tag, its
\* identifier when it is a name, and the position of its parent
Shape(tree) ==
    [k \in 1..Len(tree) |->
       [tag |-> tree[k].tag,
        id |-> IF IsRandomId(tree[k].id) THEN "" ELSE tree[k].id,
        parent |-> IF tree[k].parent = NoParent THEN 0 ELSE PosOf(tree, tree[k].parent)]]

ChildrenOf(tree, nid) == {k \in 1..Len(tree) : tree[k].parent = nid}

\* the state lists of a tree: its states_in_<scope> nodes
StateLists(tree) ==
    {k \in 1..Len(tree) : StartsWith(tree[k].id, "states_in_")}

\* an identifier of the form <name>_in_<scope>, which only state nodes carry
IsStateId(nid) ==
    /\ Len(Split(nid, "_")) >= 3
    /\ Split(nid, "_")[2] = "in"
    /\ Split(nid, "_")[1] \notin {"transitions", "states"}

\* the identifier a DuplicatedNodeIdError message names
DuplicateOf(msg) == SubSeq(msg, Len("Can't create node with ID '") + 1, Len(msg) - 1)

\* C15: in every tree no state list holds two state nodes of the same name, and
\* no run ends because a state name was seen again: the node it has is reused.
C15_NameUniqueness ==
    \A r \in Run :
        /\ \A l \in StateLists(runs[r].tree) :
             \A a, b \in ChildrenOf(runs[r].tree, runs[r].tree[l].id) :
                 a # b => runs[r].tree[a].tag # runs[r].tree[b].tag
        /\ ~(runs[r].err = "DuplicatedNodeIdError" /\ IsStateId(DuplicateOf(runs[r].msg)))

\* B is declared twice and named by a transition; the tree has one node for it
C15_Witness ==
    /\ input = <<"state B", "A --> B : go", "state B">>
    /\ \E r \in Run :
         /\ runs[r].err = NoErr
         /\ Cardinality({k \in 1..Len(runs[r].tree) : runs[r].tree[k].id = "b_in_door"}) = 1
         /\ Cardinality(ChildrenOf(runs[r].tree, "states_in_door")) = 2

\* the names declared with an opening brace
OpenedStates ==
    {Data(input)[k][2] : k \in {j \in 1..Len(input) :
        Len(Data(input)[j]) >= 3 /\ Data(input)[j][1] = "state" /\ Has(Data(input)[j], "{")}}

BraceCount(b) == Cardinality({k \in 1..Len(input) : Has(Data(input)[k], b)})

\* the words of a text: its pieces between blanks, quotes and underscores
RECURSIVE Words(_, _, _)
Words(s, k, cur) ==
    IF k > Len(s) THEN {cur}
    ELSE IF SubSeq(s, k, k) \in {" ", "'", "_"} THEN {cur} \cup Words(s, k + 1, "")
    ELSE Words(s, k + 1, cur \o SubSeq(s, k, k))

\* the name t is a word of the text s
Mentions(s, t) == t \in Words(s, 1, "")

\* C19: when more braces are opened than closed, every run ends with an error
\* whose message names a state declared with an opening brace.
C19_UnbalancedBraces ==
    \A r \in Run :
        BraceCount("{") > BraceCount("}")
        => /\ runs[r].err # NoErr
           /\ \E X \in OpenedStates : Mentions(Lower(runs[r].msg), Lower(X))

\* the transition nodes of a tree with their scope: the children of its
\* transitions_in_<scope> nodes
TransitionNodes(tree) ==
    {k \in 1..Len(tree) : StartsWith(tree[k].parent, "transitions_in_")}

ScopeOf(tree, k) == SubSeq(tree[k].parent, 16, Len(tree[k].parent))

\* the names below the source_state and goal_state nodes of transition k
Endpoints(tree, k) ==
    {tree[n].tag : n \in {m \in 1..Len(tree) :
        /\ tree[m].parent # NoParent
        /\ \E e \in ChildrenOf(tree, tree[k].id) :
             tree[e].tag \in {"source_state", "goal_state"} /\ tree[m].parent = tree[e].id}}

IsPseudo(n) == n = InitialPseudo \/ StartsWith(n, "history_state_")

\* C20: in a returned tree every endpoint of every transition that is no
\* pseudostate is a state node of the transition's scope.
C20_ImplicitStateCreation ==
    \A r \in Run :
        runs[r].err = NoErr
        => \A k \in TransitionNodes(runs[r].tree) :
             \A n \in Endpoints(runs[r].tree, k) :
                 ~IsPseudo(n)
                 => HasNode(runs[r].tree, n \o "_in_" \o ScopeOf(runs[r].tree, k))

(***************************************************************************)
(* Properties of the generator and of the driver script.                    *)
(***************************************************************************)
\* the driver's generator returned code for the tree of its last parse
CodeReturned == step \in {"write", "done"}

\* the tree the driver's generator ran over
GenTree == runs[Len(runs)].tree

\* the scopes of a tree: the top level and every state with substates
ScopesOf(tree, root) ==
    {root} \cup {tree[k].tag : k \in {j \in 1..Len(tree) :
                   /\ StartsWith(tree[j].parent, "states_in_")
                   /\ HasNode(tree, "states_in_" \o tree[j].tag)
                   /\ Kids(tree, "states_in_" \o tree[j].tag) # << >>}}

\* the transitions of a scope, and those of them that leave [*]
ScopeTransitions(tree, scope) ==
    IF HasNode(tree, "transitions_in_" \o scope) THEN Kids(tree, "transitions_in_" \o scope)
    ELSE << >>

ScopeInitials(tree, scope) ==
    {k \in 1..Len(ScopeTransitions(tree, scope)) :
        Part(tree, ScopeTransitions(tree, scope)[k], "source_state") = InitialPseudo}

LineSet(g) == {g.lines[k] : k \in 1..Len(g.lines)}

\* some emitted line sets the current state of a scope to target
SetsInitial(g, target) ==
    \E prefix \in {"        self.state = self.", "        self._state = self.",
                   "            self._state = self."} : (prefix \o target) \in LineSet(g)

\* C16: whenever the generator returns code, every scope that has a
\* transition has exactly one transition leaving [*] and the emitted code
\* sets the scope's current state to the target of that transition
C16_InitialStateResolution ==
    CodeReturned =>
      \A scope \in ScopesOf(GenTree, ParentOf(file)) :
         ScopeTransitions(GenTree, scope) # << >> =>
           /\ Cardinality(ScopeInitials(GenTree, scope)) = 1
           /\ \A k \in ScopeInitials(GenTree, scope) :
                SetsInitial(gen, Part(GenTree, ScopeTransitions(GenTree, scope)[k],
                                      "goal_state"))

\* the state fields the emitted code refers to: the initial targets and the
\* targets of the dispatch branches
RefAfter(l, prefix) ==
    Split(Split(SubSeq(l, Len(prefix) + 1, Len(l)), ")")[1], ",")[1]

Referenced(g) ==
    UNION {{RefAfter(l, prefix) : l \in {x \in LineSet(g) : StartsWith(x, prefix)}} :
           prefix \in {"        self.state = self.", "        self._state = self.",
                       "            self._state = self.",
                       "            self.context.transition(self.context."}}

\* a class and a constructor field were emitted for the state field name
Emitted(g, name) ==
    /\ ("        self." \o name \o " = " \o Capitalize(name) \o "(self)") \in LineSet(g)
    /\ \E l \in LineSet(g) : StartsWith(l, "class " \o Capitalize(name) \o "(")

\* C17: whenever the generator returns code, every state field the code
\* refers to has an emitted class and an emitted constructor field
C17_ReferenceIntegrity == CodeReturned => \A name \in Referenced(gen) : Emitted(gen, name)

\* the text Generator.generate() returned
Code == Join(gen.lines, "\n")

\* C18: the output file changes only in the step after a parse and a
\* generation that both returned without an exception, and it then holds the
\* whole generated text; it stays as it was while or after either raised
C18_AllOrNothing ==
    [][ /\ out' # out => /\ step = "write"
                         /\ runs[Len(runs)].err = NoErr
                         /\ gen.err = NoErr
                         /\ gen.lines # << >>
                         /\ out' = Code
        /\ step' = "raised" => out' = out ]_vars

\* a parse raised and left the earlier output file as it was
C18_WitnessRaised ==
    /\ step = "raised" /\ runs # << >> /\ runs[Len(runs)].err # NoErr
    /\ out = "# generated earlier"

C18_Witness ==
    /\ step = "done" /\ out = Code /\ Len(gen.lines) > 56
    /\ runs[Len(runs)].err = NoErr /\ gen.err = NoErr

(***************************************************************************)
(* The driver over richer inputs: the input file starts as one of a few     *)
(* documents, a few lines are appended, and the Generator is given the tree *)
(* with every state node tagged by the state's name, which is what          *)
(* generator.py reads state_node.tag as.                                    *)
(***************************************************************************)
MaxAppend == 2

MainInput == "../examples/inputs/coffeeMachine.puml"

Documents ==
    { << >>,
      <<"state A">>,
      <<"A --> B : e">>,
      <<"state A {", "  B --> C : e [g > 1]", "}">>,
      <<"state A {", "  B --> C : e", "}">>,
      <<"state my", "state my_a {", "  B --> C : e", "}">>,
      <<"state A {", "  B --> D : e", "  state C {", "    B: Entry: x", "  }", "}">> }

AppendPool ==
    {"state A", "state A[H]", "A: Entry: x", "A: Entry: y", "A: Exit: y", "B: Exit: x",
     "A --> B : e [g]", "A --> B : e [g > 1]", "A --> B : [g]", "B --> A[H] : back",
     "[*] --> A"}

\* the tree as parser.Parser of src/src hands it to the Generator: the node of
\* a state is tagged with the state's name, not with its identifier
NamedNode(n) ==
    IF StartsWith(n.parent, "states_in_") /\ n.tag = n.id
       /\ Len(n.id) > Len(n.parent) - 6
    THEN [n EXCEPT !.tag = SubSeq(n.id, 1, Len(n.id) - (Len(n.parent) - 6))]
    ELSE n

NamedTree(tree) == [k \in 1..Len(tree) |-> NamedNode(tree[k])]

BuildInit ==
    /\ MachineIdle
    /\ ForkIdle
    /\ file = MainInput
    /\ input \in Documents
    /\ runs = << >>
    /\ step = "parse"
    /\ gen = NewGenerator
    /\ out = NoFile

\* one more line is appended to the document the input file started as
AppendLine ==
    /\ runs = << >>
    /\ \E d \in Documents :
         /\ Len(d) <= Len(input) /\ SubSeq(input, 1, Len(d)) = d
         /\ Len(input) < Len(d) + MaxAppend
    /\ \E l \in AppendPool : input' = Append(input, l)
    /\ UNCHANGED <<file, runs, step, gen, out>>
    /\ UNCHANGED machineVars
    /\ UNCHANGED forkVars

\* gen = Generator(tree, root); code = gen.generate(), over the named tree
RunGeneratorNamed ==
    /\ step = "generate"
    /\ \E hashseed \in Seeds :
         \E g \in {generate(NamedTree(runs[Len(runs)].tree), ParentOf(file), hashseed)} :
           /\ gen' = g
           /\ step' = Continue("write", g)
    /\ UNCHANGED <<file, input, runs, out>>
    /\ UNCHANGED machineVars
    /\ UNCHANGED forkVars

BuildNext == AppendLine \/ RunParser \/ RunGeneratorNamed \/ WriteOutput

BuildSpec == BuildInit /\ [][BuildNext]_vars

(***************************************************************************)
(* Properties of transition labels: what a transition line states and what  *)
(* the tree and the emitted code hold for it.                               *)
(***************************************************************************)
\* the first and the last position of character c in s, 0 without one
FirstAt(s, c) ==
    IF \E k \in 1..Len(s) : SubSeq(s, k, k) = c
    THEN CHOOSE k \in 1..Len(s) :
           SubSeq(s, k, k) = c /\ \A j \in 1..(k - 1) : SubSeq(s, j, j) # c
    ELSE 0

LastAt(s, c) ==
    IF \E k \in 1..Len(s) : SubSeq(s, k, k) = c
    THEN CHOOSE k \in 1..Len(s) :
           SubSeq(s, k, k) = c /\ \A j \in (k + 1)..Len(s) : SubSeq(s, j, j) # c
    ELSE 0

RECURSIVE Trim(_)
\* s without the blanks at its ends
Trim(s) ==
    IF Len(s) = 0 THEN ""
    ELSE IF SubSeq(s, 1, 1) = " " THEN Trim(SubSeq(s, 2, Len(s)))
    ELSE IF SubSeq(s, Len(s), Len(s)) = " " THEN Trim(SubSeq(s, 1, Len(s) - 1))
    ELSE s

IsTransitionLine(l) == Has(Split(l, " "), "-->")

\* a transition line with a label, and the label: the text after the colon
HasLabel(l) == IsTransitionLine(l) /\ FirstAt(l, ":") > 0

LabelOf(l) == Trim(SubSeq(l, FirstAt(l, ":") + 1, Len(l)))

IsGuarded(l) ==
    /\ HasLabel(l)
    /\ FirstAt(LabelOf(l), "[") > 0
    /\ LastAt(LabelOf(l), "]") > FirstAt(LabelOf(l), "[")

\* the event and the guard a transition line states
StatedEvent(l) ==
    IF IsGuarded(l) THEN Trim(SubSeq(LabelOf(l), 1, FirstAt(LabelOf(l), "[") - 1))
    ELSE LabelOf(l)

StatedGuard(l) ==
    IF IsGuarded(l)
    THEN SubSeq(LabelOf(l), FirstAt(LabelOf(l), "[") + 1, LastAt(LabelOf(l), "]") - 1)
    ELSE Unset

\* the endpoints a transition line states, as the tree names them
StatedSource(l) == Lower(Split(Trim(l), " ")[1])

StatedTarget(l) == Lower(Split(Split(Trim(l), " ")[3], "[")[1])

\* transition node k of a tree stands for line l: same endpoints
StandsFor(tree, k, l) ==
    /\ Part(tree, tree[k], "source_state") = StatedSource(l)
    /\ Part(tree, tree[k], "goal_state") \in {StatedTarget(l), "history_state_" \o StatedTarget(l)}

LabelledLines == {j \in 1..Len(input) : HasLabel(input[j])}

\* C21: in every returned tree, each labelled transition line of the input has
\* a transition record with the event the line states (the text before the
\* bracket, empty for a guard-only label) and the guard it states (the text
\* inside the bracket, none without a bracket).
C21_EventGuardParsing ==
    \A r \in Run :
        runs[r].err = NoErr
        => \A j \in LabelledLines :
             \E k \in TransitionNodes(runs[r].tree) :
                 /\ StandsFor(runs[r].tree, k, input[j])
                 /\ runs[r].tree[k].tag = StatedEvent(input[j])
                 /\ Part(runs[r].tree, runs[r].tree[k], "guard") = StatedGuard(input[j])

GuardedLines == {j \in 1..Len(input) : IsGuarded(input[j])}

\* some emitted dispatch condition tests the guard text against the context
TestsGuard(g, guard) ==
    \E k \in 1..Len(g.lines) :
        \E e \in {StatedEvent(input[j]) : j \in GuardedLines} :
            g.lines[k] = "        if event == \"" \o e \o "\" and (self.context." \o guard \o "):"

\* C22: for a guarded transition line at any nesting depth, the guard stored
\* in a returned tree is exactly the text between the brackets of the line,
\* and returned code tests exactly that text after "self.context.".
C22_GuardVerbatim ==
    \A j \in GuardedLines :
        /\ \A r \in Run :
             runs[r].err = NoErr
             => \E k \in TransitionNodes(runs[r].tree) :
                  /\ StandsFor(runs[r].tree, k, input[j])
                  /\ Part(runs[r].tree, runs[r].tree[k], "guard") = StatedGuard(input[j])
        /\ CodeReturned => TestsGuard(gen, StatedGuard(input[j]))

\* a transition line whose target token carries the history marker
IsHistoryLine(l) ==
    /\ IsTransitionLine(l)
    /\ Len(Split(Trim(l), " ")) >= 3
    /\ Len(Split(Trim(l), " ")[3]) > 3
    /\ SubSeq(Split(Trim(l), " ")[3], Len(Split(Trim(l), " ")[3]) - 2,
              Len(Split(Trim(l), " ")[3])) = "[H]"

HistoryLines == {j \in 1..Len(input) : IsHistoryLine(input[j])}

\* a plain declaration "state <name>"
IsDeclaration(l) ==
    /\ Len(Split(l, " ")) = 2
    /\ Split(l, " ")[1] = "state"
    /\ FirstAt(Split(l, " ")[2], "[") = 0
    /\ Split(l, " ")[2] # ""

\* the history marker nodes a tree holds for the state named X
Markers(tree, X) ==
    {k \in 1..Len(tree) : tree[k].tag = "history" /\ StartsWith(tree[k].parent, X \o "_in_")}

\* the state nodes of a tree, tagged with their names
StateNodes(tree) ==
    {NamedNode(tree[k]) : k \in {j \in 1..Len(tree) : StartsWith(tree[j].parent, "states_in_")}}

HasSubstates(tree, X) ==
    HasNode(tree, "states_in_" \o X) /\ Kids(tree, "states_in_" \o X) # << >>

\* C23: an input of plain state declarations and history-directed transition
\* lines is parsed to a tree, wherever the lines stand; in a returned tree
\* every history-directed line has a record whose target is the history
\* pseudostate of X, and X carries exactly one marker node; returned code
\* declares a state as CompositeStateWithHistory exactly when it has substates
\* and a marker.
C23_HistoryMarking ==
    /\ \A r \in Run :
         /\ (HistoryLines # {}
             /\ \A j \in 1..Len(input) : IsHistoryLine(input[j]) \/ IsDeclaration(input[j]))
            => runs[r].err = NoErr
         /\ runs[r].err = NoErr
            => \A j \in HistoryLines :
                 /\ \E k \in TransitionNodes(runs[r].tree) :
                      /\ Part(runs[r].tree, runs[r].tree[k], "source_state")
                           = StatedSource(input[j])
                      /\ Part(runs[r].tree, runs[r].tree[k], "goal_state")
                           = "history_state_" \o StatedTarget(input[j])
                 /\ Cardinality(Markers(runs[r].tree, StatedTarget(input[j]))) = 1
    /\ CodeReturned
       => \A n \in StateNodes(GenTree) :
            ("class " \o Capitalize(n.tag) \o "(CompositeStateWithHistory):" \in LineSet(gen))
            <=> (HasSubstates(GenTree, n.tag) /\ Markers(GenTree, n.tag) # {})

(***************************************************************************)
(* Properties of action bindings.                                           *)
(***************************************************************************)
KindWord(kind) == IF kind = "entry" THEN "Entry:" ELSE "Exit:"

\* the line "<State>: Entry: <action>" or "<State>: Exit: <action>"
IsBinding(l, kind) ==
    /\ Len(Split(l, " ")) >= 3
    /\ Len(Split(l, " ")[1]) > 1
    /\ LastAt(Split(l, " ")[1], ":") = Len(Split(l, " ")[1])
    /\ Split(l, " ")[2] = KindWord(kind)

BoundState(l) == Lower(SubSeq(Split(l, " ")[1], 1, Len(Split(l, " ")[1]) - 1))

BoundName(l) == Join(From(Split(l, " "), 2), " ")

\* the lines of the input that bind the kind of action to state X
BindingLines(X, kind) ==
    {j \in 1..Len(input) : IsBinding(input[j], kind) /\ BoundState(input[j]) = X}

\* line j binds an action to a state that an earlier line declares
BindsDeclared(j) ==
    /\ \E kind \in {"entry", "exit"} : IsBinding(input[j], kind)
    /\ \E d \in 1..(j - 1) :
         IsDeclaration(input[d]) /\ Lower(Split(input[d], " ")[2]) = BoundState(input[j])

\* the binding nodes of the kind a tree holds for state X
BindingNodes(tree, X, kind) ==
    {k \in 1..Len(tree) : tree[k].tag = kind /\ StartsWith(tree[k].parent, X \o "_in_")}

BoundStates == {BoundState(input[j]) : j \in {i \in 1..Len(input) :
                   \E kind \in {"entry", "exit"} : IsBinding(input[i], kind)}}

\* C24: an input of plain state declarations and of action bindings on
\* declared states is parsed to a tree, also when a state's entry (exit) action
\* is bound more than once; in a returned tree a state with such lines has
\* exactly one entry (exit) binding, the action of the last of them.
C24_LastBindingWins ==
    \A r \in Run :
        /\ (\A j \in 1..Len(input) : IsDeclaration(input[j]) \/ BindsDeclared(j))
           => runs[r].err = NoErr
        /\ runs[r].err = NoErr
           => \A X \in BoundStates : \A kind \in {"entry", "exit"} :
                BindingLines(X, kind) # {}
                => /\ Cardinality(BindingNodes(runs[r].tree, X, kind)) = 1
                   /\ \A k \in BindingNodes(runs[r].tree, X, kind) :
                        \A j \in BindingLines(X, kind) :
                            (\A j2 \in BindingLines(X, kind) : j2 <= j)
                            => FirstTag(runs[r].tree, runs[r].tree[k].id) = BoundName(input[j])

NodeSet(tree) == {tree[k] : k \in 1..Len(tree)}

\* the input with lines j and j + 1 exchanged
Swapped(j) == [input EXCEPT ![j] = input[j + 1], ![j + 1] = input[j]]

\* the places of the input where an Entry: line and an Exit: line of the same
\* state follow each other, in either order
EntryExitPairs ==
    {j \in 1..(Len(input) - 1) :
        /\ BoundState(input[j]) = BoundState(input[j + 1])
        /\ \/ IsBinding(input[j], "entry") /\ IsBinding(input[j + 1], "exit")
           \/ IsBinding(input[j], "exit") /\ IsBinding(input[j + 1], "entry")}

KindOf(l) == IF IsBinding(l, "entry") THEN "entry" ELSE "exit"

\* a tree holds the binding that line l states
HoldsBinding(tree, l) ==
    \E k \in BindingNodes(tree, BoundState(l), KindOf(l)) :
        FirstTag(tree, tree[k].id) = BoundName(l)

\* C25: where an Entry: line and an Exit: line of one state follow each other,
\* parsing the input with the two lines exchanged ends the same way and, when
\* a tree is returned, gives the same nodes (identifier, tag and parent of
\* each; the order of the two binding nodes below the state follows the
\* lines); the tree holds both bindings, the binding of the first line is the
\* node it was before the second line was read, and returned code calls both
\* actions.
C25_BindingsCommute ==
    \A r \in Run : \A j \in EntryExitPairs :
        \E seed \in Seeds :
            LET other == Outcome(puml_to_ast(TextLines(Swapped(j)), ParentOf(file), seed))
                before == Outcome(puml_to_ast(TextLines(SubSeq(input, 1, j)),
                                              ParentOf(file), seed))
            IN  /\ other.err = runs[r].err
                /\ runs[r].err = NoErr
                   => /\ NodeSet(other.tree) = NodeSet(runs[r].tree)
                      /\ HoldsBinding(runs[r].tree, input[j])
                      /\ HoldsBinding(runs[r].tree, input[j + 1])
                      /\ before.err = NoErr
                      /\ NodeSet(before.tree) \subseteq NodeSet(runs[r].tree)
                      /\ (CodeReturned /\ r = Len(runs))
                         => /\ "        " \o BoundName(input[j]) \o "()" \in LineSet(gen)
                            /\ "        " \o BoundName(input[j + 1]) \o "()" \in LineSet(gen)

\* code was returned for an input that binds an entry and an exit action, with
\* different names, to a declared state
C25_Witness ==
    /\ CodeReturned
    /\ runs[Len(runs)].err = NoErr
    /\ \E j \in EntryExitPairs :
         /\ BoundName(input[j]) # BoundName(input[j + 1])
         /\ HoldsBinding(GenTree, input[j])
         /\ HoldsBinding(GenTree, input[j + 1])

(***************************************************************************)
(* Properties of the emitted classes and action stubs.                      *)
(***************************************************************************)
\* the nodes in the state lists of a tree
ListedStates(tree) == {k \in 1..Len(tree) : StartsWith(tree[k].parent, "states_in_")}

\* the places of the class lines emitted after the four base classes
ClassLines(g) == {k \in 1..Len(g.lines) : StartsWith(g.lines[k], "class ")}

ClassLinesOf(g, name) ==
    {k \in ClassLines(g) : StartsWith(g.lines[k], "class " \o Capitalize(name) \o "(")}

BaseClasses == {"State", "SimpleState", "CompositeState", "CompositeStateWithHistory"}

\* some emitted line assigns a field for the name
HasField(g, name) ==
    \E k \in 1..Len(g.lines) : Trim(g.lines[k]) = "self." \o name \o " = "
                                                   \o Capitalize(name) \o "(self)"

\* C26: no state list of a returned tree holds a node for [*] or for a history
\* pseudostate; returned code has exactly one class for every state node, the
\* class of a state before those of its substates, no other class but the
\* base classes and StateMachine, and no class or field for a pseudostate.
C26_PseudostatesNeverStates ==
    /\ \A r \in Run :
         runs[r].err = NoErr
         => \A k \in ListedStates(runs[r].tree) : ~IsPseudo(runs[r].tree[k].tag)
    /\ CodeReturned
       => /\ \A n \in StateNodes(GenTree) :
               /\ Cardinality(ClassLinesOf(gen, n.tag)) = 1
               /\ \A m \in StateNodes(GenTree) :
                    n.parent = "states_in_" \o m.tag
                    => \A a \in ClassLinesOf(gen, m.tag) : \A b \in ClassLinesOf(gen, n.tag) :
                         a < b
          /\ Cardinality(ClassLines(gen))
               = Cardinality(BaseClasses) + Cardinality(StateNodes(GenTree)) + 1
          /\ \A k \in ListedStates(GenTree) :
               IsPseudo(GenTree[k].tag)
               => /\ ClassLinesOf(gen, GenTree[k].tag) = {}
                  /\ ~HasField(gen, GenTree[k].tag)

EndsWith(s, suffix) ==
    Len(s) >= Len(suffix) /\ SubSeq(s, Len(s) - Len(suffix) + 1, Len(s)) = suffix

\* the places of the emitted stubs "def <name>():" and the name of a stub
StubPlaces(g) ==
    {k \in 1..Len(g.lines) : StartsWith(g.lines[k], "def ") /\ EndsWith(g.lines[k], "():")}

StubName(l) == SubSeq(l, 5, Len(l) - 3)

StubNames(g) == {StubName(g.lines[k]) : k \in StubPlaces(g)}

\* the actions called from the emitted entry() and exit() methods
CallPlaces(g) ==
    {k \in 1..Len(g.lines) :
        /\ StartsWith(g.lines[k], "        ")
        /\ EndsWith(g.lines[k], "()")
        /\ ~StartsWith(Trim(g.lines[k]), "self.")}

CalledActions(g) ==
    {SubSeq(Trim(g.lines[k]), 1, Len(Trim(g.lines[k])) - 2) : k \in CallPlaces(g)}

\* the action names bound to the states of a tree
BoundNames(tree) ==
    {FirstTag(tree, tree[k].id) :
        k \in {j \in 1..Len(tree) : tree[j].tag \in {"entry", "exit"}
                                     /\ \E n \in ListedStates(tree) :
                                          tree[n].id = tree[j].parent}}

RECURSIVE ScopeStack(_)
\* the scopes open before line j of the input, the innermost last
ScopeStack(j) ==
    IF j = 1 THEN <<ParentOf(file)>>
    ELSE LET st == ScopeStack(j - 1)
             toks == Split(Trim(input[j - 1]), " ")
         IN  IF toks[1] = "state" /\ Has(toks, "{") THEN Append(st, Lower(toks[2]))
             ELSE IF toks = <<"}">> /\ Len(st) > 1 THEN SubSeq(st, 1, Len(st) - 1)
             ELSE st

\* the scope in which line j occurs
LineScope(j) == ScopeStack(j)[Len(ScopeStack(j))]

RECURSIVE LinesFrom(_, _)
\* the transition lines of a scope from line j on, in the order of the input
LinesFrom(scope, j) ==
    IF j > Len(input) THEN << >>
    ELSE IF IsTransitionLine(input[j]) /\ LineScope(j) = scope
         THEN <<input[j]>> \o LinesFrom(scope, j + 1)
    ELSE LinesFrom(scope, j + 1)

LineScopes == {LineScope(j) : j \in 1..Len(input)}

\* the scopes for which a tree has a transition list
ListScopes(tree) ==
    {SubSeq(tree[k].id, 16, Len(tree[k].id)) :
        k \in {j \in 1..Len(tree) : StartsWith(tree[j].id, "transitions_in_")}}

\* the nodes of the transition records of a tree: those with a random
\* identifier
RecordNodes(tree) == {tree[k] : k \in {j \in 1..Len(tree) : IsRandomId(tree[j].id)}}

\* C30: in a returned tree the transition list of every scope holds one
\* record for each transition line that occurs in the scope, in the order of
\* the lines, and no other record; and the records that the lines up to any
\* line gave are in the tree unchanged.
C30_TransitionRecords ==
    \A r \in Run :
        runs[r].err = NoErr
        => /\ \A scope \in LineScopes \cup ListScopes(runs[r].tree) :
                LET ls == LinesFrom(scope, 1)
                    ts == ScopeTransitions(runs[r].tree, scope)
                IN  /\ Len(ts) = Len(ls)
                    /\ \A n \in 1..Len(ts) :
                         StandsFor(runs[r].tree, PosOf(runs[r].tree, ts[n].id), ls[n])
           /\ Cardinality(TransitionNodes(runs[r].tree))
                = Cardinality({j \in 1..Len(input) : IsTransitionLine(input[j])})
           /\ \E seed \in Seeds :
                /\ puml_to_ast(TextLines(input), ParentOf(file), seed).tree = runs[r].tree
                /\ \A j \in 1..Len(input) :
                     LET before == puml_to_ast(TextLines(SubSeq(input, 1, j)),
                                               ParentOf(file), seed)
                     IN  before.err = NoErr
                         => RecordNodes(before.tree) \subseteq RecordNodes(runs[r].tree)

(***************************************************************************)
(* Properties of the emitted StateMachine constructor and composite entry.  *)
(***************************************************************************)
\* the targets of the [*] transitions listed for a scope, in the tree's order
InitialTargets(scope) ==
    {i \in 1..Len(Ch.trans) : Ch.trans[i].scope = scope /\ Ch.trans[i].source = InitialPseudo}

DeclaredInitial(scope) ==
    Ch.trans[CHOOSE i \in InitialTargets(scope) : \A j \in InitialTargets(scope) : i <= j].target

SlotAt(lg, h, s, p) ==
    IF \E j \in 1..(p - 1) : lg[j].op = "sethist" /\ lg[j].st = s
    THEN lg[CHOOSE j \in 1..(p - 1) :
              /\ lg[j].op = "sethist" /\ lg[j].st = s
              /\ \A j2 \in (j + 1)..(p - 1) : ~(lg[j2].op = "sethist" /\ lg[j2].st = s)].arg
    ELSE h[s]

\* every entry of a composite in the log lg runs in the stated order
EntryOrder(lg, h) ==
    \A k \in 1..Len(lg) :
      (lg[k].op = "entry" /\ lg[k].st \in Composites) =>
        LET s == lg[k].st
            p == IF Ch.entry[s] # "" THEN k + 2 ELSE k + 1
            restore == lg[k].uh /\ s \in HistComposites
        IN  /\ Ch.entry[s] # "" =>
                 (lg[k + 1].op = "entry_action" /\ lg[k + 1].st = s
                  /\ lg[k + 1].arg = Ch.entry[s])
            /\ lg[p].op = "set" /\ lg[p].st = s
            /\ lg[p].ptr = (IF restore THEN "history" ELSE "initial")
            /\ lg[p].arg = (IF restore THEN SlotAt(lg, h, s, p) ELSE DeclaredInitial(s))
            /\ IF lg[p].arg = NoState THEN lg[p + 1].op = "raise"
               ELSE /\ lg[p + 1].op = "entry" /\ lg[p + 1].st = lg[p].arg
                    /\ ~lg[p + 1].uh

\* C29: in every dispatch, the entry of a composite runs its own bound entry
\* action first, then sets its current substate (to the history slot when
\* use_hist is true and the composite has history, else to the target of its
\* scope's [*] transition), then calls entry() of that substate without
\* history, so a restored composite substate starts at its own initial
C29_CompositeEntryOrder == [][log' # log => EntryOrder(log', hist)]_vars

\* work was re-entered with history, restored its composite substate run, and
\* run started at its initial substate fast
C29_Witness ==
    /\ chart = "deep" /\ err = NoErr
    /\ \E k \in LogIdx :
         /\ log[k].op = "entry" /\ log[k].st = "work" /\ log[k].uh
         /\ \E p \in LogIdx : /\ p > k /\ log[p].op = "set" /\ log[p].st = "work"
                              /\ log[p].ptr = "history" /\ log[p].arg = "run"
         /\ \E q \in LogIdx : /\ q > k /\ log[q].op = "set" /\ log[q].st = "run"
                              /\ log[q].ptr = "initial" /\ log[q].arg = "fast"

(***************************************************************************)
(* Properties of the pointers of the emitted runtime.                       *)
(***************************************************************************)
\* C36: after the constructor and after every dispatch that returned, the
\* top-level active state is a top-level state, every composite on the active
\* chain has its current-substate pointer set to one of its own direct
\* substates, and a history slot that is set holds one of its composite's own
\* direct substates.
C36_ActivePointers ==
    err = NoErr
    => /\ state \in Children(Root)
       /\ \A c \in Chain \cap Composites : sub[c] \in Children(c)
       /\ \A c \in HistComposites : hist[c] # NoState => hist[c] \in Children(c)

\* the three-level chart with both composites on the active chain after a
\* re-entry with history
C36_Witness ==
    /\ chart = "deep"
    /\ err = NoErr
    /\ lastEvent = "resume"
    /\ state = "work"
    /\ sub["work"] = "run"
    /\ sub["run"] = "fast"
    /\ hist["work"] = "run"

\* the transition calls of a log, and the composite X whose transition() was
\* the only one a dispatch called
Calls(lg) == {i \in 1..Len(lg) : lg[i].op = "transition"}

OnlyInner(lg, X) ==
    /\ Cardinality(Calls(lg)) = 1
    /\ \A i \in Calls(lg) : lg[i].st = X /\ lg[i].arg \in Children(X)

RanOwnAction(lg, X) ==
    \E k \in 1..Len(lg) : lg[k].op \in {"entry_action", "exit_action"} /\ lg[k].st = X

RECURSIVE Inside(_, _)
\* state c lies below composite X
Inside(c, X) == c # Root /\ (Parent(c) = X \/ Inside(Parent(c), X))

\* C37 as stated: a dispatch that calls nothing but one transition between two
\* substates of a composite X leaves the top-level active state equal to X,
\* runs neither bound action of X and changes no pointer but X's
\* current-substate pointer and history slot.
C37_InnerTransitionFrame ==
    [][ \A X \in Composites :
          (log' # log /\ OnlyInner(log', X))
          => /\ state' = X
             /\ ~RanOwnAction(log', X)
             /\ \A c \in Composites \ {X} : sub'[c] = sub[c]
             /\ \A c \in HistComposites \ {X} : hist'[c] = hist[c] ]_vars

\* C37: a dispatch that calls nothing but one transition between two
\* substates of a composite X leaves the top-level active state unchanged,
\* runs neither bound action of X, and changes no pointer of a composite
\* other than X and the composites below X that are entered with the target.
C37_InnerTransitionFrameBelow ==
    [][ \A X \in Composites :
          (log' # log /\ OnlyInner(log', X))
          => /\ state' = state
             /\ ~RanOwnAction(log', X)
             /\ \A c \in Composites \ {X} : ~Inside(c, X) => sub'[c] = sub[c]
             /\ \A c \in HistComposites \ {X} : hist'[c] = hist[c] ]_vars

\* the three-level chart: plan -> run inside work, which enters the nested
\* composite run and sets its pointer
C37_Witness ==
    /\ chart = "deep"
    /\ lastEvent = "next"
    /\ err = NoErr
    /\ OnlyInner(log, "work")
    /\ state = "work"
    /\ sub["work"] = "run"
    /\ sub["run"] = "fast"

\* the places of a log where the method op of state s is called
CallsOf(lg, op, s) == {k \in 1..Len(lg) : lg[k].op = op /\ lg[k].st = s}

\* the branches of the active chain that lead from a state to itself
SelfBranches == {i \in ChainBranches : Ch.trans[i].source = Ch.trans[i].target}

\* C38: a dispatch of the event of an enabled transition from a state of the
\* active chain to itself calls that state's exit() once and then its entry()
\* once, raises nothing and leaves the state on the active chain.
C38_SelfTransition ==
    [][ \A i \in SelfBranches :
          (ctx' = ctx /\ lastEvent' # "" /\ log' # << >>
           /\ Enabled(Ch.trans[i], lastEvent') /\ <<lastEvent, log, pc>> # <<lastEvent', log', pc'>>)
          => /\ Cardinality(CallsOf(log', "exit", Ch.trans[i].source)) = 1
             /\ Cardinality(CallsOf(log', "entry", Ch.trans[i].source)) = 1
             /\ \A x \in CallsOf(log', "exit", Ch.trans[i].source) :
                  \A n \in CallsOf(log', "entry", Ch.trans[i].source) : x < n
             /\ err' = NoErr
             /\ Ch.trans[i].source \in Chain' ]_vars

\* examples/testing/test_coffemachine.py after its second dispatch
C38_Witness ==
    /\ script = "test_self_transition"
    /\ pc = 2
    /\ lastEvent = "wasserAuffuellen"
    /\ err = NoErr
    /\ sub["an"] = "leerlauf"
    /\ Cardinality(CallsOf(log, "exit", "leerlauf")) = 1
    /\ Cardinality(CallsOf(log, "entry", "leerlauf")) = 1


(***************************************************************************)
(* The tool over laid-out inputs: files whose lines are indented by two     *)
(* blanks per open brace, into which a line that declares nothing may be    *)
(* set at any place before the driver script is run.                        *)
(***************************************************************************)
MaxInsert == 1

Layouts ==
    { <<"state A", "A --> B : e">>,
      <<"state A {", "  state C {", "    D --> E : e", "  }", "  B --> F : e", "}",
        "state Y {", "  G --> H : e", "}">>,
      <<"A --> X : e", "state X {", "  B --> C : e", "}">>,
      <<"state X {", "  B --> C : e", "}", "A --> X : e">>,
      <<"A --> X[H] : back", "state X {", "  B --> C : e", "}">>,
      <<"state X {", "  B --> C : e", "}", "A --> X[H] : back">>,
      <<"state Pause", "state An {", "  Pause --> B : e", "}">>,
      <<"state X {", "  S --> T : e", "  S: Entry: a", "}">>,
      <<"state my", "state my_a {", "  B --> C : e", "}">>,
      <<"state my", "state mya {", "  B --> C : e", "}">> }

\* lines that declare nothing at any depth and hold no brace
PlainPool ==
    {"", "@startuml", "' a comment", "hide empty description", "  B",
     "note right of A : idle"}

\* the file with the line l written before its k-th line
InsertAt(doc, k, l) == SubSeq(doc, 1, k - 1) \o <<l>> \o SubSeq(doc, k, Len(doc))

RECURSIVE Inserted(_)
\* the files that up to k inserted lines make of the layouts
Inserted(k) ==
    IF k = 0 THEN Layouts
    ELSE Inserted(k - 1) \cup
         {InsertAt(d[1], d[2], d[3]) :
            d \in {e \in Inserted(k - 1) \X (1..10) \X PlainPool : e[2] <= Len(e[1]) + 1}}

ScopeInit ==
    /\ MachineIdle
    /\ ForkIdle
    /\ file \in Files
    /\ input \in Layouts
    /\ runs = << >>
    /\ step = "parse"
    /\ gen = NewGenerator
    /\ out = NoFile

\* one more line is written into the input file, at any place
InsertLine ==
    /\ runs = << >>
    /\ input \in Inserted(MaxInsert - 1)
    /\ \E k \in 1..(Len(input) + 1) : \E l \in PlainPool : input' = InsertAt(input, k, l)
    /\ UNCHANGED <<file, runs, step, gen, out>>
    /\ UNCHANGED machineVars
    /\ UNCHANGED forkVars

ScopeNext == InsertLine \/ RunParser \/ RunGenerator \/ WriteOutput

ScopeSpec == ScopeInit /\ [][ScopeNext]_vars


(***************************************************************************)
(* Properties of the scopes that braces open.                               *)
(***************************************************************************)
RECURSIVE Indent(_)
\* the number of blanks a line begins with
Indent(l) == IF Len(l) > 0 /\ SubSeq(l, 1, 1) = " " THEN 1 + Indent(SubSeq(l, 2, Len(l))) ELSE 0

\* line j is written at the depth of the braces open before it
AtDepth(j) == Indent(input[j]) = 2 * (Len(ScopeStack(j)) - 1)

\* line j declares a state: "state <name>" with or without an opening brace
DeclaresState(j) ==
    /\ Len(Split(Trim(input[j]), " ")) >= 2
    /\ Split(Trim(input[j]), " ")[1] = "state"

DeclaredName(j) == Lower(Split(Trim(input[j]), " ")[2])

\* the tree lists the state named n among the states of the scope
ListsState(tree, n, scope) ==
    \E k \in 1..Len(tree) :
        /\ tree[k].id = n \o "_in_" \o scope
        /\ tree[k].parent = "states_in_" \o scope

\* the tree lists a record of the transition line l among the transitions of
\* the scope
ListsTransition(tree, l, scope) ==
    \E k \in TransitionNodes(tree) :
        /\ tree[k].parent = "transitions_in_" \o scope
        /\ StandsFor(tree, k, l)

\* C31: in every returned tree each state declaration and each transition
\* line written between the opening line of a block and its matching close,
\* at the depth of the block, is listed in the scope of that block: the state
\* among its states, the transition among its transitions. A nested block
\* does not end the block early and a block that follows is matched on its
\* own, at every depth.
C31_ScopeByBraces ==
    \A r \in Run :
        runs[r].err = NoErr
        => \A j \in 1..Len(input) :
             AtDepth(j)
             => /\ DeclaresState(j) => ListsState(runs[r].tree, DeclaredName(j), LineScope(j))
                /\ IsTransitionLine(input[j])
                     => ListsTransition(runs[r].tree, input[j], LineScope(j))

\* no underscore in a name of the input or of its file
NoUnderscore == \A j \in 1..Len(input) : FirstAt(input[j], "_") = 0

C31_PlainNames == (NoUnderscore /\ FirstAt(ParentOf(file), "_") = 0) => C31_ScopeByBraces

C31_Nested ==
    /\ Len(input) = 9 /\ input[3] = "    D --> E : e" /\ input[8] = "  G --> H : e"
    /\ runs # << >> /\ runs[1].err = NoErr
    /\ ListsTransition(runs[1].tree, input[3], "c")
    /\ ListsTransition(runs[1].tree, input[5], "a")
    /\ ListsTransition(runs[1].tree, input[8], "y")


(***************************************************************************)
(* Properties of a state that is both referenced and declared.              *)
(***************************************************************************)
\* the lines that open a block: "state <name> {"
Blocks == {o \in 1..Len(input) : DeclaresState(o) /\ Has(Split(Trim(input[o]), " "), "{")}

\* the line that closes the block opened at line o, 0 when none does
CloseOf(o) ==
    LET ends == {c \in (o + 1)..Len(input) : Len(ScopeStack(c + 1)) = Len(ScopeStack(o))}
    IN  IF ends = {} THEN 0 ELSE CHOOSE c \in ends : \A e \in ends : c <= e

\* transition line j names the state X as its source or as its target, the
\* history marker set aside
NamesEndpoint(j, X) ==
    /\ IsTransitionLine(input[j])
    /\ Len(Split(Trim(input[j]), " ")) >= 3
    /\ X \in {StatedSource(input[j]), StatedTarget(input[j])}

\* the pairs of a block and a transition line outside it, in the scope of the
\* block, that names the state of the block
NamedAndDeclared ==
    {p \in Blocks \X (1..Len(input)) :
        /\ CloseOf(p[1]) > 0
        /\ p[2] < p[1] \/ p[2] > CloseOf(p[1])
        /\ AtDepth(p[1]) /\ AtDepth(p[2])
        /\ ScopeStack(p[2]) = ScopeStack(p[1])
        /\ NamesEndpoint(p[2], DeclaredName(p[1]))}

\* the input with the transition line j on the other side of the block o
OtherOrder(o, j) ==
    IF j < o
    THEN SubSeq(input, 1, j - 1) \o SubSeq(input, j + 1, CloseOf(o)) \o <<input[j]>>
           \o SubSeq(input, CloseOf(o) + 1, Len(input))
    ELSE SubSeq(input, 1, o - 1) \o <<input[j]>> \o SubSeq(input, o, j - 1)
           \o SubSeq(input, j + 1, Len(input))

\* what a tree holds, its random identifiers and the order of its nodes set
\* aside: the named nodes, and every transition record with its list, event,
\* endpoints and guard
Content(tree) ==
    {<<tree[k].id, tree[k].tag, tree[k].parent>> :
        k \in {n \in 1..Len(tree) : ~IsRandomId(tree[n].id)}}
    \cup
    {<<tree[k].parent, tree[k].tag, Part(tree, tree[k], "source_state"),
       Part(tree, tree[k], "goal_state"), Part(tree, tree[k], "guard")>> :
        k \in TransitionNodes(tree)}

\* the first of the lines that name or declare the state of block o
FirstSight(o) ==
    CHOOSE j \in 1..Len(input) :
        /\ j = o \/ <<o, j>> \in NamedAndDeclared
        /\ \A i \in 1..(j - 1) : i # o /\ <<o, i>> \notin NamedAndDeclared

\* C32: for a state that a transition line names and a block declares in the
\* same scope, parsing the input and parsing it with the line on the other
\* side of the block end the same way; a returned tree holds the same nodes
\* and records in both orders, with one node of the state in the scope that
\* lists the states and transitions of the block; and the node is in the tree
\* from the first line that names the state on.
C32_OrderIndependence ==
    \A r \in Run : \A p \in NamedAndDeclared :
        LET X == DeclaredName(p[1])
            scope == LineScope(p[1])
        IN  \E seed \in Seeds :
              LET other == puml_to_ast(TextLines(OtherOrder(p[1], p[2])), ParentOf(file), seed)
              IN  /\ other.err = runs[r].err
                  /\ runs[r].err = NoErr
                       => /\ Content(other.tree) = Content(runs[r].tree)
                          /\ ListsState(runs[r].tree, X, scope)
                          /\ \A j \in (p[1] + 1)..(CloseOf(p[1]) - 1) :
                               (AtDepth(j) /\ IsTransitionLine(input[j]))
                               => ListsTransition(runs[r].tree, input[j], X)
                  /\ \A j \in FirstSight(p[1])..Len(input) :
                       ListsState(puml_to_ast(TextLines(SubSeq(input, 1, j)),
                                              ParentOf(file), seed).tree, X, scope)

\* the same without a history marker on the naming line
C32_PlainEndpoint ==
    (\A j \in 1..Len(input) : FirstAt(input[j], "[") = 0 /\ FirstAt(ParentOf(file), "_") = 0)
    => C32_OrderIndependence

C32_BothOrders ==
    /\ runs # << >> /\ runs[1].err = NoErr
    /\ \E p \in NamedAndDeclared : p[2] < p[1] /\ DeclaredName(p[1]) = "x"
    /\ ListsState(runs[1].tree, "x", "door")
    /\ ListsState(runs[1].tree, "b", "x")


(***************************************************************************)
(* Properties of the lines that declare nothing.                            *)
(***************************************************************************)
\* the depths at which find_state visits line j: 0 and two more for every
\* brace open before it
Depths(j) == {2 * k : k \in 0..(Len(ScopeStack(j)) - 1)}

\* at depth i the line l is no state declaration, no transition with the
\* arrow at its place and no Entry:/Exit: binding
NothingAt(l, i) ==
    \/ Len(Split(l, " ")) < i + 2
    \/ /\ Split(l, " ")[i + 1] # "state"
       /\ Split(l, " ")[i + 2] \notin {"-->", "->", "Entry:", "Exit:"}

\* the lines of the input that are nothing at every depth they are visited
\* at and that neither open nor close a block
PassedOver ==
    {j \in 1..Len(input) :
        /\ \A i \in Depths(j) : NothingAt(input[j], i)
        /\ ~Has(Split(input[j], " "), "{")
        /\ ~Has(Split(input[j], " "), "}")}

\* the input without its line j
Without(j) == SubSeq(input, 1, j - 1) \o SubSeq(input, j + 1, Len(input))

\* C33: a line that at the depths it is visited at is no state declaration,
\* no transition and no binding leaves the tree unchanged and raises no
\* error: every run ends as the parse of the input without the line ends,
\* with the same tree.
C33_IgnoredLines ==
    \A r \in Run : \A j \in PassedOver :
        \E seed \in Seeds :
            Outcome(puml_to_ast(TextLines(Without(j)), ParentOf(file), seed)) = runs[r]

C33_CommentInBlock ==
    /\ Len(input) = 10 /\ input[4] = "' a comment" /\ 4 \in PassedOver
    /\ runs # << >> /\ runs[1].err = NoErr
    /\ ListsTransition(runs[1].tree, input[3], "c")
    /\ ListsTransition(runs[1].tree, input[6], "a")


(***************************************************************************)
(* Properties of a name used in two scopes.                                 *)
(***************************************************************************)
\* a line of the scope, at its depth, declares the state n or names it as an
\* endpoint of a transition
NamedIn(n, scope) ==
    \E j \in 1..Len(input) :
        /\ AtDepth(j) /\ LineScope(j) = scope
        /\ \/ DeclaresState(j) /\ DeclaredName(j) = n
           \/ NamesEndpoint(j, n)

\* the state names of the input
InputNames ==
    {DeclaredName(j) : j \in {i \in 1..Len(input) : DeclaresState(i)}}
    \cup UNION {{StatedSource(input[j]), StatedTarget(input[j])} :
                  j \in {i \in 1..Len(input) : \E X \in {StatedSource(input[i])} : NamesEndpoint(i, X)}}

\* the node of the state n of the scope has a transition list and a substate
\* list below it
OwnLists(tree, n, scope) ==
    /\ \E k \in 1..Len(tree) :
         tree[k].parent = n \o "_in_" \o scope /\ StartsWith(tree[k].id, "transitions_in_")
    /\ \E k \in 1..Len(tree) :
         tree[k].parent = n \o "_in_" \o scope /\ StartsWith(tree[k].id, "states_in_")

\* C34: when the input uses one state name in two scopes, the parser returns
\* a tree, and the tree has a state node of that name in either scope, each
\* with a transition list and a substate list of its own.
C34_ScopeQualifiedIdentity ==
    \A r \in Run : \A n \in InputNames : \A s1 \in LineScopes : \A s2 \in LineScopes :
        (s1 # s2 /\ NamedIn(n, s1) /\ NamedIn(n, s2))
        => /\ runs[r].err = NoErr
           /\ ListsState(runs[r].tree, n, s1) /\ OwnLists(runs[r].tree, n, s1)
           /\ ListsState(runs[r].tree, n, s2) /\ OwnLists(runs[r].tree, n, s2)


(***************************************************************************)
(* Properties of the bindings written inside a block.                       *)
(***************************************************************************)
\* the lines inside a block, at its depth, that bind an entry or exit action
\* to a state that the block names
InnerBindings ==
    {j \in 1..Len(input) :
        /\ Len(ScopeStack(j)) > 1 /\ AtDepth(j)
        /\ \E kind \in {"entry", "exit"} : IsBinding(Trim(input[j]), kind)
        /\ NamedIn(BoundState(Trim(input[j])), LineScope(j))}

\* the tree binds the action of the binding line l to the state of the scope:
\* below the node of the state there is an entry or exit node whose child is
\* tagged with the rest of the line
BindsIn(tree, l, scope) ==
    \E k \in 1..Len(tree) :
        /\ tree[k].parent = BoundState(l) \o "_in_" \o scope
        /\ tree[k].tag = KindOf(l)
        /\ FirstTag(tree, tree[k].id) = BoundName(l)

\* C35: for an Entry: or Exit: line written inside the block of a composite,
\* for a substate of that composite, the parser returns a tree in which the
\* action is bound to the node of the substate in the scope of the composite
\* and to no state of another scope.
C35_BindingInBlock ==
    \A r \in Run : \A j \in InnerBindings :
        /\ runs[r].err = NoErr
        /\ BindsIn(runs[r].tree, Trim(input[j]), LineScope(j))
        /\ \A scope \in ListScopes(runs[r].tree) \ {LineScope(j)} :
             ~BindsIn(runs[r].tree, Trim(input[j]), scope)


(***************************************************************************)
(* Properties of names with an underscore.                                  *)
(***************************************************************************)
RECURSIVE Plain(_)
\* the text s without its underscores
Plain(s) ==
    IF Len(s) = 0 THEN ""
    ELSE IF SubSeq(s, 1, 1) = "_" THEN Plain(SubSeq(s, 2, Len(s)))
    ELSE SubSeq(s, 1, 1) \o Plain(SubSeq(s, 2, Len(s)))

\* the input with every name written without underscores
PlainInput == [j \in 1..Len(input) |-> Plain(input[j])]

\* what a tree holds, read without the underscores of names and identifiers
PlainContent(tree) ==
    {<<Plain(tree[k].id), Plain(tree[k].tag), Plain(tree[k].parent)>> :
        k \in {n \in 1..Len(tree) : ~IsRandomId(tree[n].id)}}
    \cup
    {<<Plain(tree[k].parent), Plain(tree[k].tag), Plain(Part(tree, tree[k], "source_state")),
       Plain(Part(tree, tree[k], "goal_state")), Plain(Part(tree, tree[k], "guard"))>> :
        k \in TransitionNodes(tree)}

\* C39: parsing does not depend on the underscores of the names of states and
\* of the input file: every run ends as the parse of the same input with the
\* names written without underscores ends, and a returned tree lists the same
\* states and transitions in the same scopes, the underscores set aside.
C39_UnderscoreNames ==
    \A r \in Run :
        \E seed \in Seeds :
            LET twin == puml_to_ast(TextLines(PlainInput), Plain(ParentOf(file)), seed)
            IN  /\ twin.err = runs[r].err
                /\ runs[r].err = NoErr => PlainContent(runs[r].tree) = PlainContent(twin.tree)


(***************************************************************************)
(* The fork example at work.  Every action is one statement of a method of  *)
(* CoffeeStateMachine, executed by the thread that is at it; the threads    *)
(* are switched between any two statements.  The caller thread runs         *)
(* start(), refill(), resume() and drink() one after the other and writes   *)
(* the attribute water between them, the stopper thread calls stop().       *)
(***************************************************************************)
MaxCalls == 3
MaxStops == 2

\* thread t goes on to the statement at label
Goto(t, label) == calls' = [calls EXCEPT ![t].pc = label]

\* the call of thread t returns
Return(t) == Goto(t, "idle")

\* the caller thread calls one of its event methods
Call ==
    /\ calls.caller.pc = "idle"
    /\ calls.caller.n < MaxCalls
    /\ \E m \in {"start_38", "refill_53", "resume_70", "drink_78"} :
         calls' = [calls EXCEPT !.caller.pc = m, !.caller.n = @ + 1, !.caller.said = ""]
    /\ UNCHANGED coffee
    /\ UNCHANGED <<machineVars, toolVars>>

\* machine.water = v, written by the caller between two calls
SetWater ==
    /\ calls.caller.pc = "idle"
    /\ \E v \in {0, 1} : v # coffee.water /\ coffee' = [coffee EXCEPT !.water = v]
    /\ UNCHANGED calls
    /\ UNCHANGED <<machineVars, toolVars>>

\* CoffeeStateMachine.start
start ==
    /\ \/ /\ calls.caller.pc = "start_38"
          /\ IF coffee.state = "READY"
             THEN calls' = [calls EXCEPT !.caller.pc = "start_40", !.caller.said = "READY -> start()"]
             ELSE calls' = [calls EXCEPT !.caller.pc = "idle",
                                         !.caller.said = "Ignored start in state " \o coffee.state]
          /\ UNCHANGED coffee
       \/ /\ calls.caller.pc = "start_40"
          /\ Goto("caller", IF coffee.water = 0 THEN "start_43" ELSE "start_44")
          /\ UNCHANGED coffee
       \/ /\ calls.caller.pc = "start_43"
          /\ coffee' = [coffee EXCEPT !.state = "ERROR"]
          /\ Goto("caller", "start_44")
       \/ /\ calls.caller.pc = "start_44"
          /\ IF coffee.water > 0 THEN Goto("caller", "start_47") ELSE Return("caller")
          /\ UNCHANGED coffee
       \/ /\ calls.caller.pc = "start_47"
          /\ coffee' = [coffee EXCEPT !.state = "PREPARATION"]
          /\ Goto("caller", "start_48")
       \/ /\ calls.caller.pc = "start_48"
          /\ calls' = [calls EXCEPT !.caller.pc = "enter_89", !.caller.use_history = FALSE]
          /\ UNCHANGED coffee
    /\ UNCHANGED <<machineVars, toolVars>>

\* CoffeeStateMachine.refill
refill ==
    /\ \/ /\ calls.caller.pc = "refill_53"
          /\ IF coffee.state = "ERROR"
             THEN calls' = [calls EXCEPT !.caller.pc = "refill_56",
                                         !.caller.said = "ERROR -> refill() -> READY"]
             ELSE calls' = [calls EXCEPT !.caller.pc = "idle",
                                         !.caller.said = "Ignored refill in state " \o coffee.state]
          /\ UNCHANGED coffee
       \/ /\ calls.caller.pc = "refill_56"
          /\ coffee' = [coffee EXCEPT !.state = "READY"]
          /\ Return("caller")
    /\ UNCHANGED <<machineVars, toolVars>>

\* the fork threads of the caller's preparation have been started
Forked == calls.caller.pc \in {"run_118", "run_119", "run_121", "run_123", "run_124"}

\* the stopper thread calls stop()
CallStop ==
    /\ calls.stopper.pc = "idle"
    /\ calls.stopper.n < MaxStops
    /\ calls' = [calls EXCEPT !.stopper.pc = "stop_61", !.stopper.n = @ + 1,
                              !.stopper.said = "", !.stopper.during = 0]
    /\ UNCHANGED coffee
    /\ UNCHANGED <<machineVars, toolVars>>

\* CoffeeStateMachine.stop
stop ==
    /\ \/ /\ calls.stopper.pc = "stop_61"
          /\ IF coffee.state = "PREPARATION"
             THEN calls' = [calls EXCEPT !.stopper.pc = "stop_64",
                                         !.stopper.said = "PREPARATION -> stop() -> PAUSE",
                                         !.stopper.during = IF Forked THEN calls.caller.n ELSE 0]
             ELSE calls' = [calls EXCEPT !.stopper.pc = "idle",
                                         !.stopper.said = "Ignored stop in state " \o coffee.state]
          /\ UNCHANGED coffee
       \/ /\ calls.stopper.pc = "stop_64"
          /\ coffee' = [coffee EXCEPT !.state = "PAUSE"]
          /\ Goto("stopper", "stop_65")
       \/ /\ calls.stopper.pc = "stop_65"
          /\ coffee' = [coffee EXCEPT !.stop_event = TRUE]
          /\ Return("stopper")
    /\ UNCHANGED <<machineVars, toolVars>>

\* CoffeeStateMachine.resume
resume ==
    /\ \/ /\ calls.caller.pc = "resume_70"
          /\ IF coffee.state = "PAUSE"
             THEN calls' = [calls EXCEPT !.caller.pc = "resume_73",
                                         !.caller.said = "PAUSE -> resume() -> PREPARATION [History]"]
             ELSE Return("caller")
          /\ UNCHANGED coffee
       \/ /\ calls.caller.pc = "resume_73"
          /\ coffee' = [coffee EXCEPT !.state = "PREPARATION"]
          /\ Goto("caller", "resume_74")
       \/ /\ calls.caller.pc = "resume_74"
          /\ coffee' = [coffee EXCEPT !.stop_event = FALSE]
          /\ Goto("caller", "resume_75")
       \/ /\ calls.caller.pc = "resume_75"
          /\ calls' = [calls EXCEPT !.caller.pc = "enter_89", !.caller.use_history = TRUE]
          /\ UNCHANGED coffee
    /\ UNCHANGED <<machineVars, toolVars>>

\* CoffeeStateMachine.drink
drink ==
    /\ \/ /\ calls.caller.pc = "drink_78"
          /\ IF coffee.state = "SERVING"
             THEN calls' = [calls EXCEPT !.caller.pc = "drink_81",
                                         !.caller.said = "SERVING -> drink() -> READY"]
             ELSE calls' = [calls EXCEPT !.caller.pc = "idle",
                                         !.caller.said = "Ignored drink in state " \o coffee.state]
          /\ UNCHANGED coffee
       \/ /\ calls.caller.pc = "drink_81"
          /\ coffee' = [coffee EXCEPT !.state = "READY"]
          /\ Return("caller")
    /\ UNCHANGED <<machineVars, toolVars>>

\* CoffeeStateMachine._enter_preparation(use_history)
enter_preparation ==
    /\ \/ /\ calls.caller.pc = "enter_89"
          /\ calls' = [calls EXCEPT !.caller.pc = "enter_91", !.caller.phase = "GRINDING"]
          /\ UNCHANGED coffee
       \/ /\ calls.caller.pc = "enter_91"
          /\ Goto("caller", IF calls.caller.use_history /\ coffee.preparation_history # "IDLE"
                            THEN "enter_92" ELSE "enter_94")
          /\ UNCHANGED coffee
       \/ /\ calls.caller.pc = "enter_92"
          /\ calls' = [calls EXCEPT !.caller.pc = "enter_94",
                                    !.caller.phase = coffee.preparation_history]
          /\ UNCHANGED coffee
       \/ /\ calls.caller.pc = "enter_94"
          /\ Goto("caller", "run_100")
          /\ UNCHANGED coffee
    /\ UNCHANGED <<machineVars, toolVars>>

\* CoffeeStateMachine._run_preparation(phase); when it returns, start() or
\* resume() returns
run_preparation ==
    /\ \/ /\ calls.caller.pc = "run_100"
          /\ Goto("caller", IF calls.caller.phase = "GRINDING" THEN "run_101" ELSE "run_108")
          /\ UNCHANGED coffee
       \/ /\ calls.caller.pc = "run_101"
          /\ coffee' = [coffee EXCEPT !.preparation_history = "GRINDING"]
          /\ Goto("caller", "run_102")
       \/ /\ calls.caller.pc = "run_102"
          /\ IF coffee.stop_event THEN Return("caller") ELSE Goto("caller", "run_105")
          /\ UNCHANGED coffee
       \/ /\ calls.caller.pc = "run_105"
          /\ calls' = [calls EXCEPT !.caller.pc = "run_108", !.caller.phase = "FORK1"]
          /\ UNCHANGED coffee
       \/ /\ calls.caller.pc = "run_108"
          /\ IF calls.caller.phase = "FORK1" THEN Goto("caller", "run_109") ELSE Return("caller")
          /\ UNCHANGED coffee
       \/ /\ calls.caller.pc = "run_109"
          /\ coffee' = [coffee EXCEPT !.preparation_history = "FORK1"]
          /\ Goto("caller", "run_114")
       \/ /\ calls.caller.pc = "run_114"
          /\ coffee' = [coffee EXCEPT !.threads = <<"brew", "froth">>]
          /\ calls' = [calls EXCEPT !.caller.pc = "run_115",
                                    !.brew.pc = "unstarted", !.froth.pc = "unstarted"]
       \/ /\ calls.caller.pc = "run_115"
          /\ calls' = [calls EXCEPT !.caller.pc = "run_116", !.brew.pc = "brew_129"]
          /\ UNCHANGED coffee
       \/ /\ calls.caller.pc = "run_116"
          /\ calls' = [calls EXCEPT !.caller.pc = "run_118", !.froth.pc = "froth_137"]
          /\ UNCHANGED coffee
       \/ /\ calls.caller.pc = "run_118"
          /\ calls.brew.pc = "done"
          /\ Goto("caller", "run_119")
          /\ UNCHANGED coffee
       \/ /\ calls.caller.pc = "run_119"
          /\ calls.froth.pc = "done"
          /\ Goto("caller", "run_121")
          /\ UNCHANGED coffee
       \/ /\ calls.caller.pc = "run_121"
          /\ IF coffee.stop_event THEN Return("caller") ELSE Goto("caller", "run_123")
          /\ UNCHANGED coffee
       \/ /\ calls.caller.pc = "run_123"
          /\ coffee' = [coffee EXCEPT !.state = "SERVING"]
          /\ Goto("caller", "run_124")
       \/ /\ calls.caller.pc = "run_124"
          /\ coffee' = [coffee EXCEPT !.preparation_history = "IDLE"]
          /\ Return("caller")
    /\ UNCHANGED <<machineVars, toolVars>>

\* CoffeeStateMachine._thread_preinfusion_extraction, run by the thread t_brew
thread_preinfusion_extraction ==
    /\ \/ /\ calls.brew.pc = "brew_129"
          /\ Goto("brew", IF coffee.stop_event THEN "done" ELSE "brew_132")
       \/ /\ calls.brew.pc = "brew_132"
          /\ Goto("brew", "done")
    /\ UNCHANGED coffee
    /\ UNCHANGED <<machineVars, toolVars>>

\* CoffeeStateMachine._thread_frothingmilk, run by the thread t_froth
thread_frothingmilk ==
    /\ calls.froth.pc = "froth_137"
    /\ Goto("froth", "done")
    /\ UNCHANGED coffee
    /\ UNCHANGED <<machineVars, toolVars>>

\* machine = CoffeeStateMachine()
ForkInit ==
    /\ MachineIdle
    /\ file = "" /\ input = << >> /\ runs = << >> /\ step = "parse"
    /\ gen = NewGenerator /\ out = NoFile
    /\ coffee = CoffeeStateMachine
    /\ calls = NoCalls

ForkNext ==
    \/ Call \/ SetWater \/ start \/ refill \/ CallStop \/ stop \/ resume \/ drink
    \/ enter_preparation \/ run_preparation
    \/ thread_preinfusion_extraction \/ thread_frothingmilk

ForkSpec == ForkInit /\ [][ForkNext]_vars


(***************************************************************************)
(* Properties of the fork example.                                          *)
(***************************************************************************)
\* start() or resume() and stop() have both returned, and stop() had found
\* the state PREPARATION while the fork threads of that call were started
StoppedInPreparation ==
    /\ calls.caller.pc = "idle"
    /\ calls.stopper.pc = "idle"
    /\ calls.stopper.during > 0
    /\ calls.stopper.during = calls.caller.n

\* the state PAUSE is never replaced by SERVING
PauseKept == [][~(coffee.state = "PAUSE" /\ coffee'.state = "SERVING")]_vars

\* SERVING is set by the preparation after it has joined both fork threads
ServingAfterJoin ==
    [][(coffee.state # "SERVING" /\ coffee'.state = "SERVING")
       => /\ calls.caller.pc = "run_123"
          /\ calls.brew.pc = "done" /\ calls.froth.pc = "done"]_vars

\* C40: when stop() is called from another thread while start() or resume()
\* runs the preparation with its fork threads started, the state is PAUSE
\* once both calls have returned, whatever the order of the threads'
\* statements; no statement replaces the state PAUSE by SERVING; and SERVING
\* is set only after both fork threads have been joined.
C40_StopDuringPreparation ==
    [][/\ StoppedInPreparation' => coffee'.state = "PAUSE"
       /\ ~(coffee.state = "PAUSE" /\ coffee'.state = "SERVING")
       /\ (coffee.state # "SERVING" /\ coffee'.state = "SERVING")
          => /\ calls.caller.pc = "run_123"
             /\ calls.brew.pc = "done" /\ calls.froth.pc = "done"]_vars
====
